---------------------------- MODULE Spec2Model ----------------------------
(***************************************************************************)
(* Model of the real-time pipeline of horus-gui: the streaming FFT engine  *)
(* (horusgui/fft.py), the SNR history and the packet handler               *)
(* (horusgui/gui.py), and the start/stop of a decode session.              *)
(*                                                                         *)
(* The module holds several specifications over one set of variables.      *)
(* Each specification drives one part of the program and leaves the        *)
(* variables of the other parts at their initial values.                   *)
(***************************************************************************)
EXTENDS Integers, Sequences, FiniteSets, TLC

VARIABLES
    \* ---- FFTProcess (fft.py) ----
    nfft,                       \* self.nfft
    stride,                     \* self.stride
    update_decimation,          \* self.update_decimation
    callback,                   \* self.callback != None
    sample_buffer,              \* self.sample_buffer, a sequence of bytes
    update_counter,             \* self.update_counter
    input_queue,                \* self.input_queue, Queue(512)
    processing_thread_running,  \* self.processing_thread_running
    fft_pc,                     \* position of processing_thread
    emitted,                    \* the updates given to callback.emit, in order
    performed,                  \* every perform_fft call: window and result
    consumed,                   \* bytes dropped from the front of sample_buffer
    overruns,                   \* number of "Input overrun!" log lines
    added,                      \* number of add_samples calls made
    taken,                      \* number of blocks taken by processing_thread
    stream,                     \* the byte stream fed to process_block
    calls,                      \* number of process_block calls made
    fed,                        \* bytes of stream fed so far
    stop_log,                   \* for each stop() call, the blocks taken so far
    \* ---- MainWindow: SNR history and packet handler (gui.py) ----
    snrPlotTime,                \* widgets["snrPlotTime"]
    snrPlotSNR,                 \* widgets["snrPlotSNR"], in hundredths of a dB
    snrLabel,                   \* widgets["snrLabel"].text(): <<>> is "--.-"
    fest_float,                 \* widgets["fest_float"]: <<>> is no such key
    clock,                      \* time.time(), one tick for each status update
    status_raised,              \* the latest handle_status_update raised
    horusModemSelector,         \* widgets["horusModemSelector"].currentText()
    rotator,                    \* self.rotator is not None
    logger_enabled,             \* self.telemetry_logger.enabled
    pkt_pc,                     \* position of handle_new_packet
    pkt,                        \* locals and calls of handle_new_packet
    frames_decoded,             \* frames given to handle_new_packet_emit
    pending,                    \* emitted frames the UI thread has yet to take
    current,                    \* the emitted frame being handled (0: none)
    sink_log,                   \* sink calls made for emitted frames, in order
    last_packet_time,           \* self.last_packet_time: <<>> is None
    decodedDisplay,             \* widgets["latestDecodedSentenceData"].text()
    \* ---- MainWindow: the decode session (gui.py) ----
    running,                    \* self.running
    horus_modem,                \* self.horus_modem: "None" or "HorusLib"
    audio_stream,               \* self.audio_stream: its class, and whether
                                \* it still delivers samples
    fft_process,                \* self.fft_process: "None", or whether its
                                \* processing_thread_running flag is set
    fft_threads,                \* FFT processing loops alive in the pool
    captures,                   \* capture sources alive (threads, streams)
    age_threads,                \* decoded_age_thread loops alive in the pool
    session,                    \* the latest start, stop or cleanup: what it
                                \* reached and what raised
    starts,                     \* number of starts attempted
    \* ---- TelemetryLogger (telemlogger.py) ----
    log_queue,                  \* self.input_queue, Queue()
    log_directory,              \* self.log_directory
    log_directory_updated,      \* self.log_directory_updated
    log_has_file,               \* the callsign has an entry in the filenames
    log_running,                \* the logger thread: "running", "closing"
                                \* (processing_running is False), "exited"
    log_adds,                   \* number of add() calls made
    log_written,                \* the records written to a file, in order
    log_failed,                 \* opening a new log file has failed since
                                \* logging was last configured
    \* ---- AudioStream / UDPStream (audio.py, udpaudio.py) ----
    cap_source,                 \* the class of the capture source
    stats_callback,             \* self.stats_callback is set
    cap_alive,                  \* the source still delivers blocks: the
                                \* listen thread, or the device stream
    udp_m,                      \* udp_listen_thread's m: -1 is unbound,
                                \* 0 is None, n > 0 is datagram n
    blocks,                     \* number of blocks that arrived
    fft_input_log,              \* blocks given to self.fft_input, in order
    modem_log,                  \* blocks given to self.modem.add_samples
    stats_log,                  \* blocks whose stats reached stats_callback
    cap_escaped,                \* blocks whose handle_samples call raised
    hook_calls,                 \* every call of a hook, in order
    handled,                    \* the handle_samples calls: the block and
                                \* what it met
    listen_thread_running,      \* self.listen_thread_running
    socket_open,                \* self.s is open
    cap_stops,                  \* number of stop() calls made
    \* ---- horusudp.py ----
    ukhas_input,                \* the fields of the telemetry to encode
    sentence,                   \* the sentence given to decode_ukhas_sentence
    replaced,                   \* the position of the replaced character of
                                \* the telemetry portion (0: none)
    decoded,                    \* what decode_ukhas_sentence returned
    ukhas_pc,                   \* "input", "built" or "decoded"
    send_calls,                 \* number of send_payload_summary calls
    send_log,                   \* the sendto calls of the latest call
    send_result,                \* how the latest call ended
    \* ---- threads and signals (gui.py, fft.py, audio.py) ----
    ui_queue,                   \* emissions waiting in the UI thread's event loop
    touched,                    \* who has accessed the plot state, and how
    \* ---- PSTRotator (rotators.py) ----
    azel_thread_running,        \* self.azel_thread_running
    current_azimuth,            \* self.current_azimuth, in tenths of a degree
    current_elevation,          \* self.current_elevation, in tenths of a degree
    rx_socket,                  \* "unbound", "open" or "closed": s in azel_rx_loop
    rx_alive,                   \* the t_rx thread has not ended
    rx_escaped,                 \* the exception that ended t_rx, if any
    rx_reports,                 \* the datagrams recvfrom has returned so far
    \* ---- the modem shared by the session and the capture thread ----
    ui_pc,                      \* where the UI thread is in the stop branch or in cleanup
    modem_closed,               \* close() of the session's modem has been called
    cap_pc,                     \* where the capture thread is: "loop", "recvfrom", "handle", "ended"
    modem_adds,                 \* for each add_samples call: was the modem closed
    \* ---- a telemetry record shared by the sinks (telemlogger.py) ----
    rec_keys,                   \* the keys of the record object now
    rec_added,                  \* its keys when add() was called
    rec_format,                 \* self.log_format
    rec_directory,              \* self.log_directory
    rec_pc,                     \* "none", "new", "queued" or "handled"
    \* ---- ROTCTLD (rotators.py) and startstop_rotator (gui.py) ----
    rot_server,                 \* how the rotctld server behaves
    gui_rotator,                \* self.rotator of the MainWindow
    rot_sock,                   \* self.sock: "none", "created", "connected", "closed"
    rot_sent,                   \* the commands sent on the socket
    rot_model,                  \* what connect() returned or raised
    rot_connects,               \* connection attempts so far
    userCallEntry,             \* text of the uploader callsign entry
    startDecodeButton,         \* text of the start/stop button
    selectorsEnabled           \* the device and modem selectors are enabled

fftVars == <<nfft, stride, update_decimation, callback, sample_buffer,
             update_counter, input_queue, processing_thread_running, fft_pc,
             emitted, performed, consumed, overruns, added, taken,
             stream, calls, fed, stop_log>>

histVars == <<snrPlotTime, snrPlotSNR, snrLabel, fest_float, clock,
              status_raised>>

cfgVars == <<horusModemSelector, rotator, logger_enabled>>

pktVars == <<pkt_pc, pkt>>

evtVars == <<frames_decoded, pending, current, sink_log>>

dispVars == <<last_packet_time, decodedDisplay>>

guiVars == <<histVars, cfgVars, pktVars, evtVars, dispVars>>

sessVars == <<running, horus_modem, audio_stream, fft_process, fft_threads,
              captures, age_threads, session, starts>>

logVars == <<log_queue, log_directory, log_directory_updated, log_has_file,
             log_running, log_adds, log_written, log_failed>>

capVars == <<cap_source, stats_callback, cap_alive, udp_m, blocks,
             fft_input_log, modem_log, stats_log, cap_escaped, hook_calls,
             handled, listen_thread_running, socket_open, cap_stops>>

ioVars == <<ukhas_input, sentence, replaced, decoded, ukhas_pc,
            send_calls, send_log, send_result>>

thrVars == <<ui_queue, touched>>

rotVars == <<azel_thread_running, current_azimuth, current_elevation,
             rx_socket, rx_alive, rx_escaped, rx_reports>>

useVars == <<ui_pc, modem_closed, cap_pc, modem_adds>>

recVars == <<rec_keys, rec_added, rec_format, rec_directory, rec_pc>>

rctlVars == <<rot_server, gui_rotator, rot_sock, rot_sent, rot_model, rot_connects>>

widgetVars == <<userCallEntry, startDecodeButton, selectorsEnabled>>

vars == <<fftVars, guiVars, sessVars, logVars, capVars, ioVars, thrVars,
          rotVars,
                   useVars,
                   recVars,
                   rctlVars,
                   widgetVars>>

\* What the FFTProcess actions leave alone, and what the MainWindow actions do.
nonFFT == <<guiVars, sessVars, logVars, capVars, ioVars, thrVars, rotVars,
                   useVars,
                   recVars,
                   rctlVars,
                   widgetVars>>

nonGUI == <<fftVars, sessVars, logVars, capVars, ioVars, thrVars, rotVars,
                   useVars,
                   recVars,
                   rctlVars,
                   widgetVars>>

---------------------------------------------------------------------------
(* Bounds of the model *)

MaxOverrun == 2      \* add_samples calls beyond the queue capacity
MaxTaken == 2        \* blocks the processing thread takes in SpecQueue
MaxNfft == 2         \* largest nfft tried (samples)
MaxStride == 3       \* largest stride tried (samples)
MaxStreamLen == 7    \* longest byte stream fed to process_block
MaxDecimation == 2   \* largest update_decimation tried
MaxStatus == 2       \* status updates in SpecPacket
MaxStatusSnr == 32   \* status updates in SpecSnr
MaxPeaks == 1        \* samples above the SNR floor in SpecSnr
MaxStarts == 3       \* start attempts of a session
MaxStops == 2        \* stop() calls on one FFTProcess
MaxStopAdds == 3     \* add_samples calls in SpecStop
MaxFrames == 3       \* frames the modem emits in SpecOrder
MaxLogAdds == 3      \* TelemetryLogger.add calls in SpecLogger
MaxBlocks == 3       \* blocks arriving at a capture source in SpecCapture
MaxDeliveries == 4   \* handle_samples calls of a UDPStream in SpecCapture
MaxSends == 2        \* send_payload_summary calls in SpecSend

(* Program constants *)

InputQueueSize == 512    \* Queue(512)
sample_width == 2        \* sample_width=2
SilenceDbfs == -99       \* _dbfs = -99.0
SnrHistoryMax == 200     \* if len(self.widgets["snrPlotTime"]) > 200
SnrUpdateRate == 2       \* _snr_update_rate = 2 # Hz
RttyLookbackSeconds == 15    \* _snr_lookback = _snr_update_rate * 15
BinaryLookbackSeconds == 4   \* _snr_lookback = _snr_update_rate * 4
LoggerQueueSize == 0         \* Queue(): maxsize 0, no capacity
RangeInhibitMetres == 250    \* _position_info['straight_distance'] < 250

---------------------------------------------------------------------------
(* Helpers *)

Min(a, b) == IF a < b THEN a ELSE b

RECURSIVE SeqMax(_)
SeqMax(s) ==
    IF Len(s) = 1 THEN s[1]
    ELSE LET m == SeqMax(Tail(s)) IN IF s[1] > m THEN s[1] ELSE m

Abs(x) == IF x < 0 THEN -x ELSE x

\* Python slicing s[n:] : an n beyond the end gives the empty sequence.
DropFirst(s, n) == IF n >= Len(s) THEN <<>> ELSE SubSeq(s, n + 1, Len(s))

\* Python slicing s[:n]
TakeFirst(s, n) == SubSeq(s, 1, Min(n, Len(s)))

\* The byte values streams are built from: 0x00 and 0xFF give the samples
\* 0x0000 = 0, 0x00FF = 255, 0xFF00 = -256 and 0xFFFF = -1.
ByteValues == {0, 255}

\* np.fromstring(..., dtype=np.int16): little-endian signed 16-bit samples.
Int16(lo, hi) ==
    LET u == lo + 256 * hi IN IF u >= 32768 THEN u - 65536 ELSE u

ToSamples(bytes) ==
    [i \in 1..(Len(bytes) \div sample_width) |->
        Int16(bytes[2 * i - 1], bytes[2 * i])]

---------------------------------------------------------------------------
(* FFTProcess *)

\* The FFTProcess fields that process_block and perform_fft read and write.
FFTState ==
    [buf |-> sample_buffer, counter |-> update_counter, emitted |-> emitted,
     performed |-> performed, consumed |-> consumed]

\* The silence test of perform_fft: _raw_max = raw_data.max(); _raw_max > 0.
\* The samples are kept as integers (the division by 2^15 keeps the sign).
RawMax(samples) == SeqMax(samples)

\* _fft, _dbfs of perform_fft for one window of samples.
Spectrum(samples) ==
    IF RawMax(samples) > 0
    THEN [fft |-> "spectrum", dbfs_of |-> RawMax(samples), dbfs |-> 0]
    ELSE [fft |-> "nan", dbfs_of |-> 0, dbfs |-> SilenceDbfs]

\* perform_fft: one FFT on the first nfft samples, then the buffer is shifted.
PerformFFT(s) ==
    LET raw_bytes == TakeFirst(s.buf, nfft * sample_width)
        raw_data == ToSamples(raw_bytes)
        result == Spectrum(raw_data)
        emit == callback /\ (s.counter % update_decimation = 0)
    IN  [buf |-> DropFirst(s.buf, stride * sample_width),
         counter |-> IF callback THEN s.counter + 1 ELSE s.counter,
         emitted |-> IF emit THEN Append(s.emitted, result) ELSE s.emitted,
         performed |-> Append(s.performed,
                         [offset |-> s.consumed, window |-> raw_bytes,
                          result |-> result]),
         consumed |-> s.consumed + Min(stride * sample_width, Len(s.buf))]

\* The loop condition of process_block.
BufferReady(s) == Len(s.buf) > nfft * sample_width

RECURSIVE FFTLoop(_)
FFTLoop(s) == IF BufferReady(s) THEN FFTLoop(PerformFFT(s)) ELSE s

\* Mutant of process_block: at most one FFT for each block (if for while).
ProcessBlockOnce(s, samples) ==
    LET t == [s EXCEPT !.buf = s.buf \o samples]
    IN  IF BufferReady(t) THEN PerformFFT(t) ELSE t

\* process_block: extend the buffer, then FFT while it is big enough.
ProcessBlock(s, samples) == FFTLoop([s EXCEPT !.buf = s.buf \o samples])

SetFFTState(s) ==
    /\ sample_buffer' = s.buf
    /\ update_counter' = s.counter
    /\ emitted' = s.emitted
    /\ performed' = s.performed
    /\ consumed' = s.consumed

\* Mutant of put_nowait: a queue without a capacity.
PutUnbounded(q, x) == [queue |-> Append(q, x), full |-> FALSE]

\* Queue.put_nowait on Queue(512): a full queue raises queue.Full and is
\* left as it was.
PutNowait(q, x) ==
    IF Len(q) < InputQueueSize
    THEN [queue |-> Append(q, x), full |-> FALSE]
    ELSE [queue |-> q, full |-> TRUE]

\* The n-th block delivered by the sample source: one sample of value n,
\* so that queued blocks can be told apart.
BlockOf(n) == <<n % 256, (n \div 256) % 256>>

\* add_samples: put_nowait, and any exception is logged as an overrun.
AddSamplesUpTo(maxAdded) ==
    /\ added < maxAdded
    /\ LET put == PutNowait(input_queue, BlockOf(added + 1))
       IN  /\ input_queue' = put.queue
           /\ overruns' = IF put.full THEN overruns + 1 ELSE overruns
    /\ added' = added + 1
    /\ UNCHANGED <<nfft, stride, update_decimation, callback, sample_buffer,
                   update_counter, processing_thread_running, fft_pc,
                   emitted, performed, consumed, taken, stream, calls, fed,
                   stop_log>>
    /\ UNCHANGED nonFFT

AddSamples == AddSamplesUpTo(InputQueueSize + MaxOverrun)

\* processing_thread: the test of the while loop.
ThreadCheck ==
    /\ fft_pc = "check"
    /\ fft_pc' = IF processing_thread_running THEN "body" ELSE "stopped"
    /\ UNCHANGED <<nfft, stride, update_decimation, callback, sample_buffer,
                   update_counter, input_queue, processing_thread_running,
                   emitted, performed, consumed, overruns, added, taken,
                   stream, calls, fed, stop_log>>
    /\ UNCHANGED nonFFT

\* processing_thread: the body of the while loop, one block or a sleep.
ThreadBodyUpTo(maxTaken) ==
    /\ fft_pc = "body"
    /\ fft_pc' = "check"
    /\ IF Len(input_queue) > 0
       THEN /\ taken < maxTaken
            /\ input_queue' = Tail(input_queue)
            /\ taken' = taken + 1
            /\ SetFFTState(ProcessBlock(FFTState, Head(input_queue)))
            /\ calls' = calls + 1
       ELSE UNCHANGED <<input_queue, taken, sample_buffer, update_counter,
                        emitted, performed, consumed, calls>>
    /\ UNCHANGED <<nfft, stride, update_decimation, callback,
                   processing_thread_running, overruns, added, stream, fed,
                   stop_log>>
    /\ UNCHANGED nonFFT

ThreadBody == ThreadBodyUpTo(MaxTaken)

\* Mutant of stop: the flag is flipped.
StopFlagToggled(flag) == ~flag

\* stop: the value given to processing_thread_running
StopFlag(flag) == FALSE

\* stop
Stop ==
    /\ Len(stop_log) < MaxStops
    /\ stop_log' = Append(stop_log, taken)
    /\ processing_thread_running' = StopFlag(processing_thread_running)
    /\ UNCHANGED <<nfft, stride, update_decimation, callback, sample_buffer,
                   update_counter, input_queue, fft_pc, emitted, performed,
                   consumed, overruns, added, taken, stream, calls, fed>>
    /\ UNCHANGED nonFFT

\* FFTProcess.__init__ (fields common to every specification)
InitFFTProcess ==
    /\ sample_buffer = <<>>
    /\ update_counter = 0
    /\ input_queue = <<>>
    /\ processing_thread_running = TRUE
    /\ fft_pc = "check"
    /\ emitted = <<>>
    /\ performed = <<>>
    /\ consumed = 0
    /\ overruns = 0
    /\ added = 0
    /\ taken = 0
    /\ calls = 0
    /\ fed = 0
    /\ stop_log = <<>>

---------------------------------------------------------------------------
(* MainWindow: the SNR history *)

\* Optional values: None is <<>>, a value x is <<x>>.
None == <<>>
Some(x) == <<x>>

\* Two entries of HORUS_MODEM_LIST (modem.py), one binary and one RTTY.
Modems == {"Horus Binary v1/v2", "RTTY (7N1)"}

\* "RTTY" in _current_modem
IsRtty(modem) == modem = "RTTY (7N1)"

\* HORUS_MODEM_LIST[...]['modulation_detail']
ModulationDetail(modem) == IF IsRtty(modem) THEN Some("7N1") ELSE None

\* status.snr, in hundredths of a dB (1.00 dB and 3.47 dB).
SnrValues == {100, 347}

SnrFloor == CHOOSE v \in SnrValues : \A w \in SnrValues : v <= w

\* status.extended_stats.f_est: no tone found, or two tones found.
FestValues == {<<0, 0>>, <<1000, 1400>>}

\* f"{snr:2.1f}" read back by float(): the value rounded to a tenth of a dB.
FormatTenths(x) == ((x + 5) \div 10) * 10

RECURSIVE SeqSum(_)
SeqSum(s) == IF s = <<>> THEN 0 ELSE s[1] + SeqSum(Tail(s))

\* _fest_count: the estimator positions that are not 0.0
FestCount(f_est) == Cardinality({i \in 1..Len(f_est) : f_est[i] # 0})

PeakCount(hist) == Cardinality({i \in 1..Len(hist) : hist[i] # SnrFloor})

\* Mutant of the roll: the window drops its newest sample instead.
RollDropNewest(hist, x) ==
    LET h == Append(hist, x)
    IN  IF Len(h) > SnrHistoryMax THEN SubSeq(h, 1, SnrHistoryMax) ELSE h

\* Roll Time/SNR: append, and drop the oldest sample beyond 200.
Roll(hist, x) ==
    LET h == Append(hist, x)
    IN  IF Len(h) > SnrHistoryMax THEN Tail(h) ELSE h

\* handle_status_update, for at most maxUpdates updates of which at most
\* maxPeaks carry an SNR above the floor.
HandleStatusUpdate(maxUpdates, maxPeaks) ==
    /\ pkt_pc = "idle"
    /\ clock < maxUpdates
    /\ \E snr \in SnrValues, f_est \in FestValues :
          /\ (snr # SnrFloor) => (PeakCount(snrPlotSNR) < maxPeaks)
          /\ IF FestCount(f_est) = 0
             THEN \* _fest_average/_fest_count raises ZeroDivisionError
                  /\ status_raised' = TRUE
                  /\ UNCHANGED <<snrPlotTime, snrPlotSNR, snrLabel,
                                 fest_float, clock>>
             ELSE /\ status_raised' = FALSE
                  /\ fest_float' = Some(SeqSum(f_est) \div FestCount(f_est))
                  /\ clock' = clock + 1
                  /\ snrPlotTime' = Roll(snrPlotTime, clock + 1)
                  /\ snrPlotSNR' = Roll(snrPlotSNR, snr)
                  /\ snrLabel' = Some(FormatTenths(snr))
    /\ UNCHANGED <<cfgVars, pktVars, evtVars, dispVars>>
    /\ UNCHANGED nonGUI

\* _snr_lookback of get_latest_snr
SnrLookback(modem) ==
    IF IsRtty(modem)
    THEN SnrUpdateRate * RttyLookbackSeconds
    ELSE SnrUpdateRate * BinaryLookbackSeconds

\* Mutant of get_latest_snr: the most recent sample.
GetLatestSnrLast(modem, hist) == hist[Len(hist)]

\* get_latest_snr, on a history that is not empty (np.max of an empty array
\* raises ValueError).
GetLatestSnr(modem, hist) ==
    LET n == SnrLookback(modem)
    IN  IF Len(hist) > n
        THEN SeqMax(SubSeq(hist, Len(hist) - n + 1, Len(hist)))
        ELSE SeqMax(hist)

---------------------------------------------------------------------------
(* MainWindow: user actions on the rotator and the logger *)

\* startstop_rotator: connect (which may fail) or disconnect. The button is
\* gone once the application quits.
StartStopRotator ==
    /\ pkt_pc = "idle"
    /\ session.op # "cleanup"
    /\ IF rotator
       THEN rotator' = FALSE
       ELSE \E connected \in BOOLEAN : rotator' = connected
    /\ UNCHANGED <<horusModemSelector, logger_enabled>>
    /\ UNCHANGED <<histVars, pktVars, evtVars, dispVars>>
    /\ UNCHANGED nonGUI

\* set_logging_state: the logger is enabled when the box is checked and a
\* log directory is set or selected.
SetLoggingState ==
    /\ pkt_pc = "idle"
    /\ \E checked \in BOOLEAN, selects \in BOOLEAN :
        LET enable == checked /\ (log_directory # "" \/ selects)
        IN  /\ logger_enabled' = enable
            /\ IF enable
               THEN \* update_log_directory
                    /\ log_directory' = "dir"
                    /\ log_directory_updated' = TRUE
                    /\ log_failed' = FALSE
               ELSE UNCHANGED <<log_directory, log_directory_updated,
                                log_failed>>
    /\ UNCHANGED <<log_queue, log_has_file, log_running, log_adds,
                   log_written>>
    /\ UNCHANGED <<horusModemSelector, rotator>>
    /\ UNCHANGED <<histVars, pktVars, evtVars, dispVars>>
    /\ UNCHANGED <<fftVars, sessVars, capVars, ioVars, thrVars,
                   rotVars,
                   useVars,
                   recVars,
                   rctlVars,
                   widgetVars>>

---------------------------------------------------------------------------
(* MainWindow.handle_new_packet *)

\* The locals of handle_new_packet and what it has called, before a frame.
FreshPkt ==
    [frame |-> [kind |-> "none", parse |-> "na", lat0 |-> FALSE],
     snr |-> None,            \* _snr of get_latest_snr
     decoded |-> FALSE,       \* _decoded is a record
     rec_snr |-> None,        \* _decoded['snr']
     f_centre |-> None,       \* _decoded['f_centre']
     dial_entry |-> "unread", \* dialFreqEntry as the frame arrived
     detail |-> None,         \* _decoded['modulation_detail']
     calls |-> <<>>,          \* the sink calls made, in order
     sink_snr |-> <<>>,       \* _decoded['snr'] as each sink was given it
     decode_failed |-> FALSE, \* the decoded display was set to DECODE FAILED
     error_logged |-> FALSE,  \* logging.error was called
     pos_display |-> FALSE,   \* bearing, elevation and range were displayed
     hide_crc |-> "unread",   \* inhibitCRCSelector, when read
     station |-> "unread",    \* userLat/Lon/AltEntry, when read
     inhibit |-> "unread",    \* rotatorRangeInhibit, when read
     distance |-> None,       \* _position_info['straight_distance']
     azel_raised |-> FALSE,   \* rotator.set_azel raised
     horus |-> "unread",      \* the Horus UDP step
     ozimux |-> "unread",     \* the OziMux step
     logged |-> FALSE,        \* the record was put on the logger's queue
     raised |-> ""]           \* the exception that left handle_new_packet

\* The frames of the modem: frame.data is empty, a str or bytes; parse is
\* what parse_ukhas_string / decode_packet make of it (a record, an
\* exception naming a CRC Failure, another exception); lat0 says that the
\* record has latitude 0.0 and longitude 0.0.
Frames ==
    {[kind |-> "empty", parse |-> "na", lat0 |-> FALSE]} \cup
    {[kind |-> k, parse |-> p, lat0 |-> z] :
        k \in {"str", "bytes"}, p \in {"crc", "error"}, z \in {FALSE}} \cup
    {[kind |-> k, parse |-> "ok", lat0 |-> z] :
        k \in {"str", "bytes"}, z \in BOOLEAN}

\* dialFreqEntry: empty, a number of MHz, not a number.
DialTexts == {"", "437.600", "abc"}

\* float(text)*1e6
DialHz(text) == IF text = "437.600" THEN Some(437600000) ELSE None

\* _radio_dial: the dial frequency plus the estimator average; a text that
\* is no number, or a missing fest_float key, raises and gives None.
RadioDial(text) ==
    IF text = "" \/ DialHz(text) = None \/ fest_float = None
    THEN None
    ELSE Some(DialHz(text)[1] + fest_float[1])

\* Mutant of the parse step: a record is kept whatever the parser did.
RecordKeptAlways(parse) == TRUE

\* _decoded is assigned only when the parser returns.
RecordKept(parse) == parse = "ok"

\* The inputs of handle_new_packet in full.
AllInputs ==
    [frames |-> Frames, dials |-> DialTexts, late |-> BOOLEAN,
     stations |-> {"zero", "nonzero", "invalid"},
     distances |-> {RangeInhibitMetres - 1, RangeInhibitMetres,
                    RangeInhibitMetres + 1},
     azel |-> {"ok", "raises"},
     checked |-> BOOLEAN, ports |-> {"55672", ""}, queued |-> FALSE]

\* The inputs of handle_new_packet with no station position, no dial
\* frequency and no UDP output configured.
QuietInputs ==
    [frames |-> Frames, dials |-> {""}, late |-> {FALSE},
     stations |-> {"zero"}, distances |-> {RangeInhibitMetres},
     azel |-> {"ok"}, checked |-> {FALSE}, ports |-> {"55672"},
     queued |-> FALSE]

\* The inputs of handle_new_packet when the frames are those the modem
\* thread has emitted, with both UDP outputs configured.
EmittedInputs ==
    [frames |-> Frames, dials |-> {""}, late |-> {FALSE},
     stations |-> {"zero"}, distances |-> {RangeInhibitMetres},
     azel |-> {"ok"}, checked |-> {TRUE}, ports |-> {"55672"},
     queued |-> TRUE]

\* Mutant of the delivery of queued signals: the newest first.
TakeEventNewest(q) ==
    [event |-> q[Len(q)], rest |-> SubSeq(q, 1, Len(q) - 1)]

\* The delivery of a queued signal to the UI thread: the oldest first.
TakeEvent(q) == [event |-> Head(q), rest |-> Tail(q)]

\* handle_new_packet_emit, called by the modem in the capture thread: the
\* frame is queued for the UI thread.
HandleNewPacketEmit(maxFrames) ==
    /\ frames_decoded < maxFrames
    /\ frames_decoded' = frames_decoded + 1
    /\ \E frame \in Frames :
          pending' = Append(pending, [id |-> frames_decoded + 1,
                                      frame |-> frame])
    /\ UNCHANGED <<current, sink_log>>
    /\ UNCHANGED <<histVars, cfgVars, pktVars, dispVars>>
    /\ UNCHANGED nonGUI

\* time.time() at a decode: a stamp that differs from the one before it.
TimeStamp(before) == IF before = Some(0) THEN Some(1) ELSE Some(0)

\* The frames handle_new_packet may be called with.
FrameSource(in) ==
    IF ~in.queued THEN in.frames
    ELSE IF pending = <<>> THEN {}
    ELSE {TakeEvent(pending).event.frame}

\* sink_log after the calls that new adds to old, for the emitted frame id.
SinkLog(id, old, new) ==
    IF id = 0 THEN sink_log
    ELSE sink_log \o [i \in 1..(Len(new) - Len(old)) |->
                         [id |-> id, sink |-> new[Len(old) + i]]]

\* Mutant of the CRC-hide test: the option hides every failure.
CrcHiddenAlways(parse, hide) == hide

\* "CRC Failure" in str(e) and inhibitCRCSelector.isChecked()
CrcHidden(parse, hide) == (parse = "crc") /\ hide

\* Mutant of the payload test: every frame is handled.
HasPayloadAlways(frame) == TRUE

\* len(frame.data) > 0
HasPayload(frame) == frame.kind # "empty"

\* handle_new_packet up to "if _decoded:": the SNR, the dial frequency, the
\* parse of the payload, the raw and decoded displays, the SondeHub upload.
\* late says that a statement after the parse (the upload) raises.
PacketParse(in) ==
    /\ pkt_pc = "idle"
    /\ \E frame \in FrameSource(in), dial \in in.dials :
        IF ~HasPayload(frame)
        THEN /\ pkt' = [FreshPkt EXCEPT !.frame = frame]
             /\ pkt_pc' = "done"
             /\ UNCHANGED dispVars
        ELSE IF snrPlotSNR = <<>>
        THEN \* get_latest_snr: np.max of an empty array raises
             /\ pkt' = [FreshPkt EXCEPT !.frame = frame,
                                        !.dial_entry = dial,
                                        !.raised = "ValueError"]
             /\ pkt_pc' = "done"
             /\ UNCHANGED dispVars
        ELSE \E hide \in BOOLEAN, late \in in.late :
             LET _snr == GetLatestSnr(horusModemSelector, snrPlotSNR)
                 kept == RecordKept(frame.parse)
                 parsed == frame.parse = "ok"
                 excepted == (~parsed) \/ late
                 hidden == CrcHidden(frame.parse, hide)
                 failed == excepted /\ ~hidden
             IN  /\ pkt' = [FreshPkt EXCEPT
                        !.frame = frame,
                        !.snr = Some(_snr),
                        !.decoded = kept,
                        !.rec_snr = IF kept THEN Some(_snr) ELSE None,
                        !.detail = IF kept
                                   THEN ModulationDetail(horusModemSelector)
                                   ELSE None,
                        !.f_centre = IF kept THEN RadioDial(dial) ELSE None,
                        !.dial_entry = dial,
                        !.calls = IF parsed
                                  THEN <<"sondehub_uploader.add">> ELSE <<>>,
                        !.sink_snr = IF parsed
                                     THEN <<[sink |-> "sondehub_uploader.add",
                                             snr |-> _snr]>>
                                     ELSE <<>>,
                        !.hide_crc = IF ~excepted THEN "unread"
                                     ELSE IF frame.parse # "crc" THEN "unread"
                                     ELSE IF hide THEN "on" ELSE "off",
                        !.decode_failed = failed,
                        !.error_logged = failed]
                 /\ pkt_pc' = IF kept THEN "position" ELSE "done"
                 /\ decodedDisplay' =
                        IF failed THEN "DECODE FAILED"
                        ELSE IF parsed THEN "packet"
                        ELSE decodedDisplay
                 /\ last_packet_time' =
                        IF parsed THEN TimeStamp(last_packet_time)
                        ELSE last_packet_time
    /\ pending' = IF in.queued THEN TakeEvent(pending).rest ELSE pending
    /\ current' = IF in.queued THEN TakeEvent(pending).event.id ELSE 0
    /\ sink_log' = SinkLog(current', <<>>, pkt'.calls)
    /\ UNCHANGED frames_decoded
    /\ UNCHANGED <<histVars, cfgVars>>
    /\ UNCHANGED nonGUI

\* Mutant of the range inhibit: the boundary of 250 m is inclusive.
RangeInhibitInclusive(checked, distance) ==
    checked /\ distance <= RangeInhibitMetres

\* _range_inhibit
RangeInhibit(checked, distance) == checked /\ distance < RangeInhibitMetres

\* Mutant of the rotator test: the record's position is not looked at.
RotatorMovesAnywhere(connected, lat0, range_inhibit) ==
    connected /\ ~range_inhibit

\* self.rotator and not (latitude == 0.0 and longitude == 0.0)
\* and not _range_inhibit
RotatorMoves(connected, lat0, range_inhibit) ==
    connected /\ ~lat0 /\ ~range_inhibit

\* Mutant of the station test: a position at 0.0, 0.0 counts as set.
StationConfiguredAlways(st) == TRUE

\* (_station_lat != 0.0) or (_station_lon != 0.0); the station "zero" has
\* latitude 0.0 and longitude 0.0.
StationConfigured(st) == st # "zero"

\* handle_new_packet: the range/elevation/bearing fields and the rotator.
PacketPosition(in) ==
    /\ pkt_pc = "position"
    /\ pkt_pc' = "horus"
    /\ \E st \in in.stations :
        IF st = "invalid"
        THEN \* float() raises, which is caught and logged
             pkt' = [pkt EXCEPT !.station = st, !.error_logged = TRUE]
        ELSE IF ~StationConfigured(st)
        THEN pkt' = [pkt EXCEPT !.station = st]
        ELSE \E d \in in.distances, inh \in BOOLEAN, azel \in in.azel :
             LET _range_inhibit == RangeInhibit(inh, d)
                 moves == RotatorMoves(rotator, pkt.frame.lat0, _range_inhibit)
                 bad == moves /\ azel = "raises"
             IN  pkt' = [pkt EXCEPT
                    !.station = st,
                    !.pos_display = TRUE,
                    !.distance = Some(d),
                    !.inhibit = IF inh THEN "on" ELSE "off",
                    !.calls = IF moves THEN Append(@, "rotator.set_azel")
                              ELSE @,
                    !.azel_raised = bad,
                    !.error_logged = @ \/ bad]
    /\ sink_log' = SinkLog(current, pkt.calls, pkt'.calls)
    /\ UNCHANGED <<frames_decoded, pending, current>>
    /\ UNCHANGED <<histVars, cfgVars, dispVars>>
    /\ UNCHANGED nonGUI

\* int(text) of a port entry
PortParses(text) == text # ""

\* float(self.widgets["snrLabel"].text()), 0 when the label is no number
LabelSnr == IF snrLabel = None THEN 0 ELSE snrLabel[1]

\* handle_new_packet: send data out via Horus UDP.
PacketHorusUDP(in) ==
    /\ pkt_pc = "horus"
    /\ \E checked \in in.checked, port \in in.ports :
        IF ~checked
        THEN /\ pkt' = [pkt EXCEPT !.horus = "off"]
             /\ pkt_pc' = "ozimux"
        ELSE IF ~PortParses(port)
        THEN \* int() raises ValueError, which nothing catches
             /\ pkt' = [pkt EXCEPT !.horus = "badport",
                                   !.raised = "ValueError"]
             /\ pkt_pc' = "done"
        ELSE /\ pkt' = [pkt EXCEPT
                    !.horus = "sent",
                    !.rec_snr = Some(LabelSnr),
                    !.calls = Append(@, "send_payload_summary"),
                    !.sink_snr = Append(@, [sink |-> "send_payload_summary",
                                            snr |-> LabelSnr])]
             /\ pkt_pc' = "ozimux"
    /\ sink_log' = SinkLog(current, pkt.calls, pkt'.calls)
    /\ UNCHANGED <<frames_decoded, pending, current>>
    /\ UNCHANGED <<histVars, cfgVars, dispVars>>
    /\ UNCHANGED nonGUI

\* handle_new_packet: send data out via OziMux messaging.
PacketOziMux(in) ==
    /\ pkt_pc = "ozimux"
    /\ \E checked \in in.checked, port \in in.ports :
        IF ~checked
        THEN /\ pkt' = [pkt EXCEPT !.ozimux = "off"]
             /\ pkt_pc' = "log"
        ELSE IF ~PortParses(port)
        THEN /\ pkt' = [pkt EXCEPT !.ozimux = "badport",
                                   !.raised = "ValueError"]
             /\ pkt_pc' = "done"
        ELSE /\ pkt' = [pkt EXCEPT
                    !.ozimux = "sent",
                    !.calls = Append(@, "send_ozimux_message"),
                    !.sink_snr = Append(@, [sink |-> "send_ozimux_message",
                                            snr |-> pkt.rec_snr[1]])]
             /\ pkt_pc' = "log"
    /\ sink_log' = SinkLog(current, pkt.calls, pkt'.calls)
    /\ UNCHANGED <<frames_decoded, pending, current>>
    /\ UNCHANGED <<histVars, cfgVars, dispVars>>
    /\ UNCHANGED nonGUI

\* handle_new_packet: log telemetry. TelemetryLogger.add queues the record
\* when logging is enabled.
PacketLog ==
    /\ pkt_pc = "log"
    /\ pkt_pc' = "done"
    /\ pkt' = [pkt EXCEPT !.calls = Append(@, "telemetry_logger.add"),
                          !.sink_snr = Append(@,
                                         [sink |-> "telemetry_logger.add",
                                          snr |-> pkt.rec_snr[1]]),
                          !.logged = logger_enabled]
    /\ sink_log' = SinkLog(current, pkt.calls, pkt'.calls)
    /\ UNCHANGED <<frames_decoded, pending, current>>
    /\ UNCHANGED <<histVars, cfgVars, dispVars>>
    /\ UNCHANGED nonGUI

\* handle_new_packet returns, or the exception it raised is caught by the
\* caller: its locals are gone.
PacketReturn ==
    /\ pkt_pc = "done"
    /\ pkt_pc' = "idle"
    /\ pkt' = FreshPkt
    /\ current' = 0
    /\ UNCHANGED <<frames_decoded, pending, sink_log>>
    /\ UNCHANGED <<histVars, cfgVars, dispVars>>
    /\ UNCHANGED nonGUI

\* MainWindow.__init__
InitGUI ==
    /\ snrPlotTime = <<>>
    /\ snrPlotSNR = <<>>
    /\ snrLabel = None
    /\ fest_float = None
    /\ clock = 0
    /\ status_raised = FALSE
    /\ horusModemSelector \in Modems
    /\ rotator = FALSE
    /\ logger_enabled = FALSE
    /\ pkt_pc = "idle"
    /\ pkt = FreshPkt
    /\ frames_decoded = 0
    /\ pending = <<>>
    /\ current = 0
    /\ sink_log = <<>>
    /\ last_packet_time = None
    /\ decodedDisplay = "NO DATA"
    /\ log_queue = <<>>
    /\ log_directory = ""
    /\ log_directory_updated = FALSE
    /\ log_has_file = FALSE
    /\ log_running = "running"
    /\ log_adds = 0
    /\ log_written = <<>>
    /\ log_failed = FALSE

\* An FFTProcess that nothing drives.
IdleFFT ==
    /\ InitFFTProcess
    /\ nfft = 1
    /\ stride = 1
    /\ update_decimation = 1
    /\ callback = TRUE
    /\ stream = <<>>

\* A MainWindow that nothing drives.
IdleGUI ==
    /\ InitGUI
    /\ horusModemSelector = "Horus Binary v1/v2"

---------------------------------------------------------------------------
(* TelemetryLogger *)

\* Queue.put_nowait on a Queue of this maxsize: full when 0 < maxsize and
\* the queue holds maxsize items.
QueuePut(q, x, maxsize) ==
    IF maxsize > 0 /\ Len(q) >= maxsize
    THEN [queue |-> q, full |-> TRUE]
    ELSE [queue |-> Append(q, x), full |-> FALSE]

\* add: the record is queued when the logger is enabled.
LoggerAdd(maxAdds) ==
    /\ log_adds < maxAdds
    /\ log_adds' = log_adds + 1
    /\ log_queue' = IF logger_enabled
                    THEN QueuePut(log_queue, log_adds + 1,
                                  LoggerQueueSize).queue
                    ELSE log_queue
    /\ UNCHANGED <<log_directory, log_directory_updated, log_has_file,
                   log_running, log_written, log_failed>>
    /\ UNCHANGED <<fftVars, guiVars, sessVars, capVars, ioVars, thrVars,
                   rotVars,
                   useVars,
                   recVars,
                   rctlVars,
                   widgetVars>>

\* process_telemetry: one record is taken and given to handle_telemetry,
\* which writes it with write_csv or write_json. opens says whether open()
\* returns a file.
LoggerHandle ==
    /\ log_running # "exited"
    /\ log_queue # <<>>
    /\ log_queue' = Tail(log_queue)
    /\ IF log_directory = ""
       THEN UNCHANGED <<log_directory_updated, log_has_file, log_written,
                        log_failed, logger_enabled>>
       ELSE /\ log_directory_updated' = FALSE
            /\ \E opens \in BOOLEAN :
                LET known == log_has_file /\ ~log_directory_updated
                IN  IF opens
                    THEN /\ log_written' = Append(log_written, Head(log_queue))
                         /\ log_has_file' = TRUE
                         /\ UNCHANGED <<log_failed, logger_enabled>>
                    ELSE IF known
                    THEN \* the file written before cannot be opened: its
                         \* name is forgotten
                         /\ log_has_file' = FALSE
                         /\ UNCHANGED <<log_written, log_failed,
                                        logger_enabled>>
                    ELSE \* a new file cannot be opened: "Disabling logger."
                         /\ logger_enabled' = FALSE
                         /\ log_failed' = TRUE
                         /\ log_has_file' = FALSE
                         /\ UNCHANGED log_written
    /\ UNCHANGED <<log_directory, log_running, log_adds>>
    /\ UNCHANGED <<horusModemSelector, rotator>>
    /\ UNCHANGED <<histVars, pktVars, evtVars, dispVars>>
    /\ UNCHANGED <<fftVars, sessVars, capVars, ioVars, thrVars,
                   rotVars,
                   useVars,
                   recVars,
                   rctlVars,
                   widgetVars>>

\* close: processing_running is False.
LoggerClosed == IF log_running = "running" THEN "closing" ELSE log_running

\* close
LoggerClose ==
    /\ log_running' = LoggerClosed
    /\ log_running' # log_running
    /\ UNCHANGED <<log_queue, log_directory, log_directory_updated,
                   log_has_file, log_adds, log_written, log_failed>>
    /\ UNCHANGED <<fftVars, guiVars, sessVars, capVars, ioVars, thrVars,
                   rotVars,
                   useVars,
                   recVars,
                   rctlVars,
                   widgetVars>>

\* process_telemetry: the outer loop finds processing_running False.
LoggerExit ==
    /\ log_running = "closing"
    /\ log_running' = "exited"
    /\ UNCHANGED <<log_queue, log_directory, log_directory_updated,
                   log_has_file, log_adds, log_written, log_failed>>
    /\ UNCHANGED <<fftVars, guiVars, sessVars, capVars, ioVars, thrVars,
                   rotVars,
                   useVars,
                   recVars,
                   rctlVars,
                   widgetVars>>

---------------------------------------------------------------------------
(* MainWindow: the decode session (start_decoding, cleanup) *)

\* self.audio_stream is None.
NoStream == [kind |-> "None", live |-> FALSE]

\* The ghost record before any session operation.
NoOp == [op |-> "none", result |-> "", raised_at |-> "",
         reached |-> {}, failed |-> {}]

\* userCallEntry: the default callsign, or one the user has set.
Callsigns == {"N0CALL", "VK5QI"}

\* audioDeviceSelector: the UDP input, or a sound card.
Devices == {"UDP Audio (127.0.0.1:7355)", "Sound Card"}

\* self.fft_process.stop(): the flag of the current FFTProcess is cleared
\* and its processing loop ends; on None the call raises.
FFTStopped == IF fft_process = "running" THEN "stopped" ELSE fft_process

\* self.audio_stream.stop(): the capture ends unless the call raises.
StreamStopped(raises) ==
    IF raises THEN audio_stream ELSE [audio_stream EXCEPT !.live = FALSE]

\* A start_decoding that accepts every callsign.
CallsignNeverDefault(call) == FALSE

\* The test start_decoding makes on the uploader callsign.
CallsignIsDefault(call) == call = "N0CALL"

\* start_decoding when not running. modem_ok and audio_ok say whether the
\* HorusLib and the AudioStream constructors return.
StartDecoding ==
    /\ ~running
    /\ session.op # "cleanup"
    /\ starts < MaxStarts
    /\ starts' = starts + 1
    /\ \E call \in Callsigns, dev \in Devices, modem_ok \in BOOLEAN,
          audio_ok \in BOOLEAN :
        /\ userCallEntry' = call
        /\ IF CallsignIsDefault(call)
           THEN /\ session' = [NoOp EXCEPT !.op = "start", !.result = "n0call"]
                /\ UNCHANGED <<startDecodeButton, selectorsEnabled>>
                /\ UNCHANGED <<running, horus_modem, audio_stream, fft_process,
                               fft_threads, captures, age_threads>>
                /\ UNCHANGED dispVars
           ELSE \* the data fields are reset; then FFTProcess(...) and
                \* threadpool.start(worker) come first
                /\ last_packet_time' = None
                /\ decodedDisplay' = "NO DATA"
                /\ fft_process' = "running"
                /\ fft_threads' = fft_threads + 1
                /\ IF ~modem_ok
                   THEN /\ session' = [NoOp EXCEPT !.op = "start",
                                           !.result = "raised",
                                           !.raised_at = "HorusLib"]
                        /\ UNCHANGED <<running, horus_modem, audio_stream,
                                       captures, age_threads,
                                       startDecodeButton, selectorsEnabled>>
                   ELSE /\ horus_modem' = "HorusLib"
                        /\ IF dev = "UDP Audio (127.0.0.1:7355)"
                           THEN \* UDPStream.__init__ starts its listen thread
                                /\ audio_stream' = [kind |-> "UDPStream",
                                                    live |-> TRUE]
                                /\ captures' = captures + 1
                                /\ startDecodeButton' = "Stop"
                                /\ running' = TRUE
                                /\ age_threads' = age_threads + 1
                                /\ selectorsEnabled' = FALSE
                                /\ session' = [NoOp EXCEPT !.op = "start",
                                                   !.result = "started"]
                           ELSE IF ~audio_ok
                           THEN /\ session' = [NoOp EXCEPT !.op = "start",
                                                   !.result = "raised",
                                                   !.raised_at = "AudioStream"]
                                /\ UNCHANGED <<running, audio_stream, captures,
                                               age_threads, startDecodeButton,
                                               selectorsEnabled>>
                           ELSE \* the stream is open and delivers samples;
                                \* AudioStream has no start_stream attribute
                                /\ audio_stream' = [kind |-> "AudioStream",
                                                    live |-> TRUE]
                                /\ captures' = captures + 1
                                /\ session' = [NoOp EXCEPT !.op = "start",
                                                   !.result = "raised",
                                                   !.raised_at = "start_stream"]
                                /\ UNCHANGED <<running, age_threads,
                                               startDecodeButton,
                                               selectorsEnabled>>
    /\ UNCHANGED <<fftVars, histVars, cfgVars, pktVars, evtVars, logVars,
                   capVars, ioVars, thrVars, rotVars, useVars, recVars,
                   rctlVars>>

\* start_decoding when running: the stop branch. UDPStream.stop and
\* FFTProcess.stop only clear a flag; the modem's close may raise.
StopDecoding ==
    /\ running
    /\ session.op # "cleanup"
    /\ \E audio_raises \in {s \in BOOLEAN : s => audio_stream.kind = "AudioStream"},
          modem_raises \in BOOLEAN :
        /\ audio_stream' = StreamStopped(audio_raises)
        /\ captures' = IF audio_stream.live /\ ~audio_raises
                       THEN captures - 1 ELSE captures
        /\ fft_process' = FFTStopped
        /\ fft_threads' = IF fft_process = "running"
                          THEN fft_threads - 1 ELSE fft_threads
        /\ horus_modem' = "None"
        /\ startDecodeButton' = "Start"
        /\ running' = FALSE
        /\ selectorsEnabled' = TRUE
        /\ session' = [NoOp EXCEPT
                !.op = "stop",
                !.reached = {"audio_stream", "fft_process", "horus_modem"},
                !.failed = (IF audio_raises THEN {"audio_stream"} ELSE {})
                           \cup (IF modem_raises THEN {"horus_modem"} ELSE {})]
    /\ UNCHANGED <<age_threads, starts, userCallEntry>>
    /\ UNCHANGED <<fftVars, guiVars, logVars, capVars, ioVars, thrVars,
                   rotVars, useVars, recVars, rctlVars>>

\* cleanup, connected to the application's aboutToQuit. A call on None
\* raises; the close of the modem, the uploader and the rotator, and the
\* stop of a sound card stream, may raise.
Cleanup ==
    /\ session.op # "cleanup"
    /\ \E modem_raises \in {s \in BOOLEAN : s => horus_modem # "None"},
          audio_raises \in {s \in BOOLEAN :
                               /\ audio_stream.kind = "None" => s
                               /\ audio_stream.kind = "UDPStream" => ~s},
          uploader_raises \in BOOLEAN,
          rotator_raises \in {s \in BOOLEAN : s => rotator} :
        LET fft_raises == fft_process = "None"
        IN  /\ running' = FALSE
            /\ horus_modem' = IF modem_raises THEN horus_modem ELSE "None"
            /\ audio_stream' = StreamStopped(audio_raises)
            /\ captures' = IF audio_stream.live /\ ~audio_raises
                           THEN captures - 1 ELSE captures
            /\ fft_process' = FFTStopped
            /\ fft_threads' = IF fft_process = "running"
                              THEN fft_threads - 1 ELSE fft_threads
            /\ session' = [NoOp EXCEPT
                    !.op = "cleanup",
                    !.reached =
                        {"audio_stream", "fft_process", "sondehub_uploader",
                         "telemetry_logger"}
                        \cup (IF horus_modem # "None"
                              THEN {"horus_modem"} ELSE {})
                        \cup (IF rotator THEN {"rotator"} ELSE {}),
                    !.failed =
                        (IF modem_raises THEN {"horus_modem"} ELSE {})
                        \cup (IF audio_raises THEN {"audio_stream"} ELSE {})
                        \cup (IF fft_raises THEN {"fft_process"} ELSE {})
                        \cup (IF uploader_raises
                              THEN {"sondehub_uploader"} ELSE {})
                        \cup (IF rotator_raises THEN {"rotator"} ELSE {})]
    /\ UNCHANGED <<age_threads, starts>>
    /\ log_running' = LoggerClosed
    /\ UNCHANGED <<log_queue, log_directory, log_directory_updated,
                   log_has_file, log_adds, log_written, log_failed>>
    /\ UNCHANGED <<fftVars, guiVars, capVars, ioVars, thrVars,
                   rotVars,
                   useVars,
                   recVars,
                   rctlVars,
                   widgetVars>>

\* decoded_age_thread: the loop ends once running is false.
DecodedAgeThread ==
    /\ age_threads > 0
    /\ ~running
    /\ age_threads' = age_threads - 1
    /\ UNCHANGED <<running, horus_modem, audio_stream, fft_process,
                   fft_threads, captures, session, starts>>
    /\ UNCHANGED <<fftVars, guiVars, logVars, capVars, ioVars, thrVars,
                   rotVars,
                   useVars,
                   recVars,
                   rctlVars,
                   widgetVars>>

\* MainWindow.__init__: no session.
IdleSession ==
    /\ running = FALSE
    /\ horus_modem = "None"
    /\ audio_stream = NoStream
    /\ fft_process = "None"
    /\ fft_threads = 0
    /\ captures = 0
    /\ age_threads = 0
    /\ session = NoOp
    /\ starts = 0

---------------------------------------------------------------------------
(* The capture sources: AudioStream (audio.py) and UDPStream              *)
(* (udpaudio.py).  Both give each block to the FFT input hook and to the  *)
(* modem.                                                                  *)

CaptureSources == {"AudioStream", "UDPStream"}

\* What one block meets: the modem raises; the modem returns stats; the
\* stats callback raises.
CaptureInputs ==
    [modem_raises : BOOLEAN, stats : BOOLEAN, stats_raises : BOOLEAN]

\* Mutant of handle_samples: the modem is given the block before the
\* spectrum input.
HandleSamplesModemFirst(data, in) ==
    [calls  |-> <<[hook |-> "modem.add_samples", block |-> data],
                  [hook |-> "fft_input", block |-> data]>>
                \o (IF ~in.modem_raises /\ in.stats /\ stats_callback
                    THEN <<[hook |-> "stats_callback", block |-> data]>>
                    ELSE <<>>),
     raised |-> \/ in.modem_raises
                \/ (in.stats /\ stats_callback /\ in.stats_raises)]

\* handle_samples: the hook calls made, in order (for stats_callback, block
\* names the block whose statistics it is given), and whether an exception
\* leaves it.  fft_input is FFTProcess.add_samples, which catches what it
\* raises; modem.add_samples and stats_callback are called with no
\* try/except, so what they raise leaves handle_samples.
HandleSamples(data, in) ==
    [calls  |-> <<[hook |-> "fft_input", block |-> data],
                  [hook |-> "modem.add_samples", block |-> data]>>
                \o (IF ~in.modem_raises /\ in.stats /\ stats_callback
                    THEN <<[hook |-> "stats_callback", block |-> data]>>
                    ELSE <<>>),
     raised |-> \/ in.modem_raises
                \/ (in.stats /\ stats_callback /\ in.stats_raises)]

\* The blocks a hook was called with, in order.
RECURSIVE BlocksOf(_, _)
BlocksOf(cs, hook) ==
    IF cs = <<>> THEN <<>>
    ELSE (IF cs[1].hook = hook THEN <<cs[1].block>> ELSE <<>>)
             \o BlocksOf(Tail(cs), hook)

\* The effect of one handle_samples call on the hooks.
Deliver(data, in) ==
    LET r == HandleSamples(data, in)
    IN  /\ hook_calls' = hook_calls \o r.calls
        /\ handled' = Append(handled, [block |-> data, met |-> in])
        /\ fft_input_log' = fft_input_log \o BlocksOf(r.calls, "fft_input")
        /\ modem_log' = modem_log \o BlocksOf(r.calls, "modem.add_samples")
        /\ stats_log' = stats_log \o BlocksOf(r.calls, "stats_callback")
        /\ cap_escaped' = IF r.raised THEN Append(cap_escaped, data)
                          ELSE cap_escaped

\* The device driver calls handle_samples with a block.  What the driver
\* does with a callback that raised is its own business: the stream goes on
\* or it ends.
AudioCallback(maxBlocks) ==
    /\ cap_source = "AudioStream"
    /\ cap_alive
    /\ blocks < maxBlocks
    /\ \E in \in CaptureInputs, goes_on \in BOOLEAN :
          /\ Deliver(blocks + 1, in)
          /\ cap_alive' = IF HandleSamples(blocks + 1, in).raised
                          THEN goes_on ELSE TRUE
    /\ blocks' = blocks + 1
    /\ UNCHANGED <<cap_source, stats_callback, udp_m, listen_thread_running,
                   socket_open, cap_stops>>
    /\ UNCHANGED <<fftVars, guiVars, sessVars, logVars, ioVars, thrVars,
                   rotVars,
                   useVars,
                   recVars,
                   rctlVars,
                   widgetVars>>

RecvOutcomes == {"data", "timeout", "error"}

\* One turn of the loop of udp_listen_thread.  recvfrom gives a datagram,
\* times out (m = None), or raises something else, which is printed and
\* leaves m as it was; reading an unbound m ends the thread.  handle_samples
\* is called outside the try, so what it raises ends the thread too.  A
\* thread that ends this way does not reach self.s.close().
UdpListen(maxBlocks, maxDeliveries) ==
    /\ cap_source = "UDPStream"
    /\ cap_alive
    /\ listen_thread_running
    /\ Len(fft_input_log) < maxDeliveries
    /\ \E recv \in RecvOutcomes, in \in CaptureInputs :
          /\ recv = "data" => blocks < maxBlocks
          /\ udp_m' = IF recv = "data" THEN blocks + 1
                      ELSE IF recv = "timeout" THEN 0 ELSE udp_m
          /\ blocks' = IF recv = "data" THEN blocks + 1 ELSE blocks
          /\ IF udp_m' > 0
             THEN /\ Deliver(udp_m', in)
                  /\ cap_alive' = ~HandleSamples(udp_m', in).raised
             ELSE /\ cap_alive' = (udp_m' = 0)
                  /\ UNCHANGED <<fft_input_log, modem_log, stats_log,
                                 cap_escaped, hook_calls, handled>>
    /\ UNCHANGED <<cap_source, stats_callback, listen_thread_running,
                   socket_open, cap_stops>>
    /\ UNCHANGED <<fftVars, guiVars, sessVars, logVars, ioVars, thrVars,
                   rotVars,
                   useVars,
                   recVars,
                   rctlVars,
                   widgetVars>>

\* UDPStream.stop: self.listen_thread_running = False
UdpStopFlag(flag) == FALSE

\* UDPStream.stop, called at most maxStops times.
UdpStop(maxStops) ==
    /\ cap_source = "UDPStream"
    /\ cap_stops < maxStops
    /\ cap_stops' = cap_stops + 1
    /\ listen_thread_running' = UdpStopFlag(listen_thread_running)
    /\ UNCHANGED <<cap_source, stats_callback, cap_alive, udp_m, blocks,
                   fft_input_log, modem_log, stats_log, cap_escaped,
                   hook_calls, handled, socket_open>>
    /\ UNCHANGED <<fftVars, guiVars, sessVars, logVars, ioVars, thrVars,
                   rotVars,
                   useVars,
                   recVars,
                   rctlVars,
                   widgetVars>>

\* udp_listen_thread: the loop finds listen_thread_running False, the
\* socket is closed and the thread ends.
UdpExit ==
    /\ cap_source = "UDPStream"
    /\ cap_alive
    /\ ~listen_thread_running
    /\ socket_open' = FALSE
    /\ cap_alive' = FALSE
    /\ UNCHANGED <<cap_source, stats_callback, udp_m, blocks, fft_input_log,
                   modem_log, stats_log, cap_escaped, hook_calls, handled,
                   listen_thread_running, cap_stops>>
    /\ UNCHANGED <<fftVars, guiVars, sessVars, logVars, ioVars, thrVars,
                   rotVars,
                   useVars,
                   recVars,
                   rctlVars,
                   widgetVars>>

\* No capture source.
IdleCapture ==
    /\ cap_source = "AudioStream"
    /\ stats_callback = FALSE
    /\ cap_alive = FALSE
    /\ udp_m = -1
    /\ blocks = 0
    /\ fft_input_log = <<>>
    /\ modem_log = <<>>
    /\ stats_log = <<>>
    /\ cap_escaped = <<>>
    /\ hook_calls = <<>>
    /\ handled = <<>>
    /\ listen_thread_running = FALSE
    /\ socket_open = FALSE
    /\ cap_stops = 0

\* AudioStream.__init__ and UDPStream.__init__: the source delivers; the
\* listen thread has opened and bound its socket.
StartCapture ==
    /\ cap_source \in CaptureSources
    /\ stats_callback \in BOOLEAN
    /\ cap_alive = TRUE
    /\ udp_m = -1
    /\ blocks = 0
    /\ fft_input_log = <<>>
    /\ modem_log = <<>>
    /\ stats_log = <<>>
    /\ cap_escaped = <<>>
    /\ hook_calls = <<>>
    /\ handled = <<>>
    /\ listen_thread_running = (cap_source = "UDPStream")
    /\ socket_open = (cap_source = "UDPStream")
    /\ cap_stops = 0

---------------------------------------------------------------------------
(* horusudp.py: the UKHAS sentence parser and the Payload Summary sender.  *)
(* A text is a sequence of one-character strings.                          *)

\* The characters the sentences are made of, with their ASCII codes.
AsciiTable ==
    { <<" ", 32>>, <<"$", 36>>, <<"*", 42>>, <<",", 44>>, <<"-", 45>>,
      <<".", 46>>, <<"0", 48>>, <<"1", 49>>, <<"2", 50>>, <<"3", 51>>,
      <<"4", 52>>, <<"5", 53>>, <<"6", 54>>, <<"7", 55>>, <<"8", 56>>,
      <<"9", 57>>, <<":", 58>>, <<"A", 65>>, <<"B", 66>>, <<"C", 67>>,
      <<"D", 68>>, <<"E", 69>>, <<"F", 70>>, <<"G", 71>>, <<"I", 73>>,
      <<"N", 78>>, <<"S", 83>>, <<"T", 84>> }

\* str.encode("ascii") of one character.
Ord(c) == (CHOOSE p \in AsciiTable : p[1] = c)[2]

DigitChars == <<"0", "1", "2", "3", "4", "5", "6", "7", "8", "9">>

HexChars == DigitChars \o <<"A", "B", "C", "D", "E", "F">>

\* a ^ b on n-bit values
RECURSIVE Xor(_, _, _)
Xor(a, b, n) ==
    IF n = 0 THEN 0
    ELSE ((a + b) % 2) + 2 * Xor(a \div 2, b \div 2, n - 1)

CrcPoly == 4129      \* crc-ccitt-false: polynomial 0x1021
CrcInit == 65535     \* crc-ccitt-false: initial value 0xFFFF
CrcMask == 65536     \* sixteen bits

\* One shift of the register, most significant bit first.
CrcShift(crc) ==
    IF crc >= CrcMask \div 2
    THEN Xor((crc * 2) % CrcMask, CrcPoly, 16)
    ELSE (crc * 2) % CrcMask

RECURSIVE CrcShifts(_, _)
CrcShifts(crc, n) == IF n = 0 THEN crc ELSE CrcShifts(CrcShift(crc), n - 1)

\* The register after eight shifts, for every value of its top byte.
CrcTable == [b \in 0..255 |-> CrcShifts(b * 256, 8)]

\* One byte into the register.
CrcUpdate(crc, byte) ==
    Xor((crc % 256) * 256, CrcTable[Xor(crc \div 256, byte, 8)], 16)

\* mkCrcFun("crc-ccitt-false") over the bytes of a text
RECURSIVE Crc16(_)
Crc16(text) ==
    IF text = <<>> THEN CrcInit
    ELSE LET crc == Crc16(SubSeq(text, 1, Len(text) - 1))
         IN  IF crc < CrcMask THEN CrcUpdate(crc, Ord(text[Len(text)]))
             ELSE crc

\* hex(n)[2:].upper()
RECURSIVE HexUpper(_)
HexUpper(n) ==
    IF n < 16 THEN <<HexChars[n + 1]>>
    ELSE HexUpper(n \div 16) \o <<HexChars[(n % 16) + 1]>>

\* str.zfill(width)
RECURSIVE ZFill(_, _)
ZFill(text, width) ==
    IF Len(text) >= width THEN text ELSE ZFill(<<"0">> \o text, width)

\* crc16_ccitt(data): four upper-case hexadecimal digits.
crc16_ccitt(data) == ZFill(HexUpper(Crc16(data)), 4)

\* str.strip(): leading and trailing whitespace removed.
RECURSIVE Strip(_)
Strip(text) ==
    IF text = <<>> THEN text
    ELSE IF Head(text) = " " THEN Strip(Tail(text))
    ELSE IF text[Len(text)] = " " THEN Strip(SubSeq(text, 1, Len(text) - 1))
    ELSE text

\* str.split(sep) for a separator of one character
RECURSIVE Split(_, _)
Split(text, sep) ==
    IF \E i \in 1..Len(text) : text[i] = sep
    THEN LET i == CHOOSE k \in 1..Len(text) :
                     /\ text[k] = sep
                     /\ \A j \in 1..(k - 1) : text[j] # sep
         IN  <<SubSeq(text, 1, i - 1)>>
                 \o Split(SubSeq(text, i + 1, Len(text)), sep)
    ELSE <<text>>

\* str.split("$$")[-1]: what follows the last "$$", scanning from the left.
RECURSIVE AfterDollars(_)
AfterDollars(text) ==
    IF \E i \in 1..(Len(text) - 1) : text[i] = "$" /\ text[i + 1] = "$"
    THEN LET i == CHOOSE k \in 1..(Len(text) - 1) :
                     /\ text[k] = "$" /\ text[k + 1] = "$"
                     /\ \A j \in 1..(k - 1) : ~(text[j] = "$" /\ text[j + 1] = "$")
         IN  AfterDollars(SubSeq(text, i + 2, Len(text)))
    ELSE text

IsDigits(text) ==
    /\ text # <<>>
    /\ \A i \in 1..Len(text) : \E d \in 1..10 : DigitChars[d] = text[i]

DigitValue(c) == (CHOOSE d \in 1..10 : DigitChars[d] = c) - 1

RECURSIVE Decimal(_)
Decimal(text) ==
    IF text = <<>> THEN 0
    ELSE 10 * Decimal(SubSeq(text, 1, Len(text) - 1))
             + DigitValue(text[Len(text)])

\* int(text): an optional sign and digits; anything else is a ValueError.
ParseInt(text) ==
    LET neg == text # <<>> /\ Head(text) = "-"
        body == IF neg THEN Tail(text) ELSE text
    IN  IF IsDigits(body)
        THEN Some(IF neg THEN 0 - Decimal(body) ELSE Decimal(body))
        ELSE None

\* float(text) for decimal-degree texts with one fractional digit, in
\* tenths of a degree; anything else the sentences here do not hold.
ParseFloat(text) ==
    LET neg == text # <<>> /\ Head(text) = "-"
        body == IF neg THEN Tail(text) ELSE text
        parts == Split(body, ".")
    IN  IF Len(parts) = 2 /\ IsDigits(parts[1]) /\ IsDigits(parts[2])
           /\ Len(parts[2]) = 1
        THEN LET v == 10 * Decimal(parts[1]) + Decimal(parts[2])
             IN  Some(IF neg THEN 0 - v ELSE v)
        ELSE None

\* datetime.strptime(text, "%H:%M:%S") succeeds.
TimeParses(text) ==
    LET parts == Split(text, ":")
    IN  /\ Len(parts) = 3
        /\ \A i \in 1..3 : IsDigits(parts[i]) /\ Len(parts[i]) <= 2
        /\ Decimal(parts[1]) <= 23
        /\ Decimal(parts[2]) <= 59
        /\ Decimal(parts[3]) <= 61

AltitudeMax == 65535     \* _altitude > 65535 is rejected

\* decode_ukhas_sentence: _latitude == 0.0 or _longitude == 0.0
ZeroLatLong(latitude, longitude) == latitude = 0 \/ longitude = 0

\* decode_ukhas_sentence once the checksum has matched.
DecodeFields(_telem) ==
    LET _fields == Split(_telem, ",")
    IN  IF Len(_fields) < 6 THEN None
        ELSE LET _latitude == ParseFloat(_fields[4])
                 _longitude == ParseFloat(_fields[5])
                 _altitude == ParseInt(_fields[6])
             IN  IF _latitude = None \/ _longitude = None \/ _altitude = None
                 THEN None
                 ELSE IF ~TimeParses(_fields[3]) THEN None
                 ELSE IF ZeroLatLong(_latitude[1], _longitude[1]) THEN None
                 ELSE IF _altitude[1] > AltitudeMax \/ _altitude[1] < 0
                 THEN None
                 ELSE Some([callsign  |-> _fields[1],
                            time      |-> _fields[3],
                            latitude  |-> _latitude[1],
                            longitude |-> _longitude[1],
                            altitude  |-> _altitude[1]])

\* decode_ukhas_sentence: None, or the record.
decode_ukhas_sentence(text) ==
    LET after == AfterDollars(Strip(text))
    IN  IF after = <<>> THEN None
        ELSE LET _sentence == IF Head(after) = "$" THEN Tail(after) ELSE after
                 parts == Split(_sentence, "*")
             IN  IF Len(parts) < 2 THEN None
                 ELSE IF crc16_ccitt(parts[1]) # parts[2] THEN None
                 ELSE DecodeFields(parts[1])

RECURSIVE Join(_, _)
Join(texts, sep) ==
    IF Len(texts) = 1 THEN texts[1]
    ELSE texts[1] \o <<sep>> \o Join(Tail(texts), sep)

\* The telemetry portion of an input: the fields joined by commas, and for
\* the input with a further field, one that holds four hexadecimal digits.
Telemetry(in) ==
    LET base == Join(<<in.callsign, <<"1">>, in.time, in.latitude.text,
                       in.longitude.text, in.altitude.text>>, ",")
    IN  IF in.extra THEN base \o <<",">> \o crc16_ccitt(base) ELSE base

UkhasCallsigns == {<<"A", "B">>, <<"T", "E", "S", "T", "I", "N", "G">>}

UkhasTimes == {<<"0", "1", ":", "0", "2", ":", "0", "3">>,
               <<"2", "4", ":", "0", "0", ":", "0", "0">>}

UkhasLatitudes == {[text |-> <<"-", "3", "4", ".", "0">>, value |-> -340],
                   [text |-> <<"0", ".", "0">>, value |-> 0]}

UkhasLongitudes == {[text |-> <<"1", "3", "8", ".", "0">>, value |-> 1380],
                    [text |-> <<"0", ".", "0">>, value |-> 0]}

UkhasAltitudes == {[text |-> <<"1", "0", "0", "0">>, value |-> 1000],
                   [text |-> <<"7", "0", "0", "0", "0">>, value |-> 70000]}

UkhasInputs ==
    [callsign : UkhasCallsigns, time : UkhasTimes,
     latitude : UkhasLatitudes, longitude : UkhasLongitudes,
     altitude : UkhasAltitudes, extra : BOOLEAN]

\* The characters a character of the telemetry is replaced by.
ReplacementChars == {"0", "1", "A", ",", "*", "$"}

\* The test script: the sentence is "$$", the telemetry, "*" and the
\* checksum of the telemetry.
UkhasBuild ==
    /\ ukhas_pc = "input"
    /\ sentence' = <<"$", "$">> \o Telemetry(ukhas_input) \o <<"*">>
                       \o crc16_ccitt(Telemetry(ukhas_input))
    /\ ukhas_pc' = "built"
    /\ UNCHANGED <<ukhas_input, replaced, decoded, send_calls, send_log,
                   send_result>>
    /\ UNCHANGED <<fftVars, guiVars, sessVars, logVars, capVars,
                   thrVars, rotVars,
                   useVars,
                   recVars,
                   rctlVars,
                   widgetVars>>

\* One character of the telemetry portion becomes a different character.
UkhasReplace ==
    /\ ukhas_pc = "built"
    /\ replaced = 0
    /\ \E i \in 1..Len(Telemetry(ukhas_input)), c \in ReplacementChars :
          /\ sentence[i + 2] # c
          /\ sentence' = [sentence EXCEPT ![i + 2] = c]
          /\ replaced' = i
    /\ UNCHANGED <<ukhas_input, decoded, ukhas_pc, send_calls, send_log,
                   send_result>>
    /\ UNCHANGED <<fftVars, guiVars, sessVars, logVars, capVars,
                   thrVars, rotVars,
                   useVars,
                   recVars,
                   rctlVars,
                   widgetVars>>

\* decode_ukhas_sentence(sentence)
UkhasDecode ==
    /\ ukhas_pc = "built"
    /\ decoded' = decode_ukhas_sentence(sentence)
    /\ ukhas_pc' = "decoded"
    /\ UNCHANGED <<ukhas_input, sentence, replaced, send_calls, send_log,
                   send_result>>
    /\ UNCHANGED <<fftVars, guiVars, sessVars, logVars, capVars,
                   thrVars, rotVars,
                   useVars,
                   recVars,
                   rctlVars,
                   widgetVars>>

\* The telemetry dictionaries given to send_payload_summary: a position in
\* tenths of a degree, and whether every key the packet needs is there.
Telemetries ==
    [callsign : {"AB"}, latitude : {0, -340}, longitude : {0, 1380},
     complete : BOOLEAN]

SendPorts == {55672, 55673}

\* What the socket calls do: creating and configuring the socket, the send
\* to the broadcast address, the send to localhost.
SendOutcomes ==
    [socket : {"ok", "socket.error"},
     broadcast : {"ok", "socket.error", "other"},
     loopback : {"ok", "socket.error"}]

NoSend ==
    [ended |-> "none", error |-> "", telemetry |-> <<>>, port |-> 0,
     outcome |-> <<>>]

\* telemetry["latitude"] == 0.0 and telemetry["longitude"] == 0.0
ZeroPosition(telemetry) == telemetry.latitude = 0 /\ telemetry.longitude = 0

\* The packet: a PAYLOAD_SUMMARY with the fields of the telemetry.
SummaryPacket(telemetry) ==
    [type |-> "PAYLOAD_SUMMARY", callsign |-> telemetry.callsign,
     latitude |-> telemetry.latitude, longitude |-> telemetry.longitude]

\* Mutant of the fallback: a failed broadcast is not sent anywhere else.
SendTargetsBroadcastOnly(broadcast) == <<"<broadcast>">>

\* The addresses sendto is called with: the broadcast address, and
\* 127.0.0.1 when that send raised socket.error.
SendTargets(broadcast) ==
    IF broadcast = "socket.error"
    THEN <<"<broadcast>", "127.0.0.1">>
    ELSE <<"<broadcast>">>

\* The exception that reaches the outer handler of send_payload_summary,
\* "" when there is none.
SendError(telemetry, outcome) ==
    IF ~telemetry.complete /\ ~ZeroPosition(telemetry) THEN "KeyError"
    ELSE IF ZeroPosition(telemetry) THEN ""
    ELSE IF outcome.socket # "ok" THEN "socket.error"
    ELSE IF outcome.broadcast = "other" THEN "other"
    ELSE IF outcome.broadcast = "socket.error" /\ outcome.loopback # "ok"
    THEN "socket.error"
    ELSE ""

\* send_payload_summary(telemetry, port): every exception is caught and
\* logged, and the function returns.
SendPayloadSummary(maxSends) ==
    /\ send_calls < maxSends
    /\ \E telemetry \in Telemetries, port \in SendPorts,
          outcome \in SendOutcomes :
          LET targets == SendTargets(outcome.broadcast)
          IN  /\ send_log' =
                   IF \/ ZeroPosition(telemetry)
                      \/ ~telemetry.complete
                      \/ outcome.socket # "ok"
                   THEN <<>>
                   ELSE [i \in 1..Len(targets) |->
                            [address |-> targets[i], port |-> port,
                             packet |-> SummaryPacket(telemetry)]]
              /\ send_result' =
                   [ended |-> "returned",
                    error |-> SendError(telemetry, outcome),
                    telemetry |-> telemetry, port |-> port,
                    outcome |-> outcome]
    /\ send_calls' = send_calls + 1
    /\ UNCHANGED <<ukhas_input, sentence, replaced, decoded, ukhas_pc>>
    /\ UNCHANGED <<fftVars, guiVars, sessVars, logVars, capVars,
                   thrVars, rotVars,
                   useVars,
                   recVars,
                   rctlVars,
                   widgetVars>>

\* Nothing parsed, nothing sent.
IdleIO ==
    /\ ukhas_input = <<>>
    /\ sentence = <<>>
    /\ replaced = 0
    /\ decoded = None
    /\ ukhas_pc = "none"
    /\ send_calls = 0
    /\ send_log = <<>>
    /\ send_result = NoSend

\* No emission waits and the plot state has not been accessed.
IdleThreads ==
    /\ ui_queue = <<>>
    /\ touched = {}

\* A session is running and its capture thread has not handled a block.
IdleUse ==
    /\ ui_pc = "session"
    /\ modem_closed = FALSE
    /\ cap_pc = "loop"
    /\ modem_adds = <<>>

\* No record has been given to the logger.
IdleRecord ==
    /\ rec_keys = {}
    /\ rec_added = {}
    /\ rec_format = "CSV"
    /\ rec_directory = ""
    /\ rec_pc = "none"

\* No rotctld connection has been attempted.
IdleRotctld ==
    /\ rot_server = "none"
    /\ gui_rotator = "None"
    /\ rot_sock = "none"
    /\ rot_sent = <<>>
    /\ rot_model = None
    /\ rot_connects = 0

\* The widgets as the window builds them: the default callsign, the button
\* reading Start, the selectors enabled.
IdleWidgets ==
    /\ userCallEntry = "N0CALL"
    /\ startDecodeButton = "Start"
    /\ selectorsEnabled = TRUE

\* No PSTRotator has been constructed.
IdleRotator ==
    /\ azel_thread_running = FALSE
    /\ current_azimuth = None
    /\ current_elevation = None
    /\ rx_socket = "unbound"
    /\ rx_alive = FALSE
    /\ rx_escaped = None
    /\ rx_reports = <<>>

\* Altitudes at and beyond the limits of the range check.
UkhasEdgeAltitudes ==
    {[text |-> <<"0">>, value |-> 0],
     [text |-> <<"1", "0", "0", "0">>, value |-> 1000],
     [text |-> <<"6", "5", "5", "3", "5">>, value |-> 65535],
     [text |-> <<"6", "5", "5", "3", "6">>, value |-> 65536],
     [text |-> <<"-", "1">>, value |-> -1]}

\* Checksum-valid sentences for the sanity checks of the parser.
UkhasParseInputs ==
    [callsign : {<<"A", "B">>}, time : UkhasTimes,
     latitude : UkhasLatitudes, longitude : UkhasLongitudes,
     altitude : UkhasEdgeAltitudes, extra : BOOLEAN]

---------------------------------------------------------------------------
(* Threads and signals: who runs the handlers that touch the plot state *)

\* The thread that owns the MainWindow, the audio capture thread (pyaudio's
\* callback thread or the UDP listen thread) and the FFT worker thread.
Threads == {"ui", "capture", "fft_worker"}

\* The signals connected in gui.py and the handler each is connected to.
Signals == {"fft_info", "audio_info", "new_packet"}

Slot(signal) ==
    CASE signal = "fft_info" -> "handle_fft_update"
      [] signal = "audio_info" -> "handle_status_update"
      [] signal = "new_packet" -> "handle_new_packet"

\* The plot state each handler reads and writes: self.widgets[...] entries.
Accesses(handler) ==
    CASE handler = "handle_fft_update" ->
             {[state |-> "spectrumPlotRange", mode |-> "read"],
              [state |-> "spectrumPlotRange", mode |-> "write"]}
      [] handler = "handle_status_update" ->
             {[state |-> st, mode |-> md] :
                 st \in {"snrPlotTime", "snrPlotSNR", "snrPlotRange"},
                 md \in {"read", "write"}}
      [] handler = "handle_new_packet" ->
             {[state |-> "snrPlotSNR", mode |-> "read"]}

\* Mutant of the connection: the handler runs in the emitting thread.
SlotThreadOfEmitter(emitter) == emitter

\* connect() with the default connection type, the receiver being a method
\* of the MainWindow: the handler runs in the thread that owns the window,
\* queued through its event loop when another thread emits.
SlotThread(emitter) == "ui"

\* signal.emit(...) from a thread other than the owner: the emission waits
\* in the owner's event loop and the emitter goes on.
Emit(signal, thread, maxQueue) ==
    /\ Len(ui_queue) < maxQueue
    /\ ui_queue' = Append(ui_queue, [signal |-> signal, from |-> thread])
    /\ UNCHANGED touched
    /\ UNCHANGED <<fftVars, guiVars, sessVars, logVars, capVars, ioVars,
                   rotVars,
                   useVars,
                   recVars,
                   rctlVars,
                   widgetVars>>

\* FFTProcess.perform_fft in the worker thread: self.callback.emit({...}).
FftEmit(maxQueue) == Emit("fft_info", "fft_worker", maxQueue)

\* An emission of the audio worker's info signal from the capture side.
StatusEmit(maxQueue) == Emit("audio_info", "capture", maxQueue)

\* handle_new_packet_emit, the modem's callback, called in the capture
\* thread from modem.add_samples: self.new_packet_signal.info.emit(frame).
PacketEmit(maxQueue) == Emit("new_packet", "capture", maxQueue)

\* The owner's event loop takes the oldest emission and runs its handler.
Dispatch ==
    /\ ui_queue # <<>>
    /\ LET e == Head(ui_queue)
           handler == Slot(e.signal)
           thread == SlotThread(e.from)
       IN  touched' = touched \cup
               {[state |-> a.state, mode |-> a.mode, handler |-> handler,
                 thread |-> thread, from |-> e.from] : a \in Accesses(handler)}
    /\ ui_queue' = Tail(ui_queue)
    /\ UNCHANGED <<fftVars, guiVars, sessVars, logVars, capVars, ioVars,
                   rotVars,
                   useVars,
                   recVars,
                   rctlVars,
                   widgetVars>>

---------------------------------------------------------------------------
(* PSTRotator: the position report listener (rotators.py) *)

\* What s.recvfrom(512) gives in one turn of the loop: socket.timeout, or
\* a datagram, whose bytes are ASCII text or not.
RxDatagrams ==
    {[kind |-> "datagram", ascii |-> TRUE,
      data |-> <<"A", "Z", ":", "1", "2", ".", "5">>],
     [kind |-> "datagram", ascii |-> TRUE,
      data |-> <<"E", "L", ":", "4", "5", ".", "0">>],
     [kind |-> "datagram", ascii |-> TRUE,
      data |-> <<"A", "Z", ":", "a", "b", "c">>],
     [kind |-> "datagram", ascii |-> TRUE,
      data |-> <<"E", "L", ":">>],
     [kind |-> "datagram", ascii |-> TRUE,
      data |-> <<"O", "K", ":", "1", ".", "0">>],
     [kind |-> "datagram", ascii |-> FALSE, data |-> <<>>]}

RxOutcomes == {[kind |-> "timeout", ascii |-> TRUE, data |-> <<>>]}
                  \cup RxDatagrams

\* The body of the loop for one datagram: m[0].decode('ascii'), then
\* float(data[3:]) for an 'EL' or an 'AZ' report. The result is the new
\* azimuth and elevation, and the exception raised, if any.
ParseReport(m, azimuth, elevation) ==
    LET data == m.data
        value == ParseFloat(DropFirst(data, 3))
        kept == [azimuth |-> azimuth, elevation |-> elevation]
    IN  IF ~m.ascii
        THEN kept @@ [raised |-> Some("UnicodeDecodeError")]
        ELSE IF TakeFirst(data, 2) = <<"E", "L">>
        THEN IF value = None
             THEN kept @@ [raised |-> Some("ValueError")]
             ELSE [azimuth |-> azimuth, elevation |-> value, raised |-> None]
        ELSE IF TakeFirst(data, 2) = <<"A", "Z">>
        THEN IF value = None
             THEN kept @@ [raised |-> Some("ValueError")]
             ELSE [azimuth |-> value, elevation |-> elevation, raised |-> None]
        ELSE kept @@ [raised |-> None]

\* PSTRotator.__init__: the flag is set and t_rx starts; azel_rx_loop binds
\* its socket before the loop.
StartRotator ==
    /\ azel_thread_running = TRUE
    /\ current_azimuth = None
    /\ current_elevation = None
    /\ rx_socket = "open"
    /\ rx_alive = TRUE
    /\ rx_escaped = None
    /\ rx_reports = <<>>

\* One turn of the while loop of azel_rx_loop, for at most maxReports
\* datagrams. An exception raised in the body is caught nowhere: it ends
\* the thread before s.close().
AzelRxLoop(maxReports) ==
    /\ rx_alive
    /\ azel_thread_running
    /\ \E m \in RxOutcomes :
          IF m.kind = "timeout"
          THEN UNCHANGED <<current_azimuth, current_elevation, rx_alive,
                           rx_escaped, rx_reports>>
          ELSE LET r == ParseReport(m, current_azimuth, current_elevation)
               IN  /\ Len(rx_reports) < maxReports
                   /\ rx_reports' = Append(rx_reports, m)
                   /\ current_azimuth' = r.azimuth
                   /\ current_elevation' = r.elevation
                   /\ rx_escaped' = r.raised
                   /\ rx_alive' = (r.raised = None)
    /\ UNCHANGED <<azel_thread_running, rx_socket>>
    /\ UNCHANGED <<fftVars, guiVars, sessVars, logVars, capVars, ioVars,
                   thrVars,
                   useVars,
                   recVars,
                   rctlVars,
                   widgetVars>>

\* PSTRotator.close: self.azel_thread_running = False
RotatorClose ==
    /\ rx_socket # "unbound"
    /\ azel_thread_running' = FALSE
    /\ UNCHANGED <<current_azimuth, current_elevation, rx_socket, rx_alive,
                   rx_escaped, rx_reports>>
    /\ UNCHANGED <<fftVars, guiVars, sessVars, logVars, capVars, ioVars,
                   thrVars,
                   useVars,
                   recVars,
                   rctlVars,
                   widgetVars>>

\* The loop test of azel_rx_loop fails: s.close() and the thread is over.
AzelRxExit ==
    /\ rx_alive
    /\ ~azel_thread_running
    /\ rx_socket' = "closed"
    /\ rx_alive' = FALSE
    /\ UNCHANGED <<azel_thread_running, current_azimuth, current_elevation,
                   rx_escaped, rx_reports>>
    /\ UNCHANGED <<fftVars, guiVars, sessVars, logVars, capVars, ioVars,
                   thrVars,
                   useVars,
                   recVars,
                   rctlVars,
                   widgetVars>>

---------------------------------------------------------------------------
(* The modem between the session's stop and the capture thread: the steps
   of the stop branch of start_decoding and of cleanup, interleaved with
   the steps of the capture thread *)

\* The capture state these steps leave alone.
capRest == <<cap_source, stats_callback, udp_m, blocks, fft_input_log,
             modem_log, stats_log, cap_escaped, hook_calls, handled,
             cap_stops>>

\* self.audio_stream.stop(): UDPStream.stop clears the flag and returns;
\* AudioStream.stop closes the device stream unless the call raises.
StreamStop(raises) ==
    IF cap_source = "UDPStream"
    THEN /\ listen_thread_running' = FALSE
         /\ UNCHANGED cap_alive
    ELSE /\ cap_alive' = (cap_alive /\ raises)
         /\ UNCHANGED listen_thread_running

\* The stop branch of start_decoding, first try: self.audio_stream.stop().
\* Only a UDP session gets to running = True, so the stream is a UDPStream.
StopBranchStream ==
    /\ ui_pc = "session"
    /\ cap_source = "UDPStream"
    /\ StreamStop(FALSE)
    /\ ui_pc' = "stop_modem"
    /\ UNCHANGED <<modem_closed, cap_pc, modem_adds, socket_open>>
    /\ UNCHANGED capRest
    /\ UNCHANGED <<fftVars, guiVars, sessVars, logVars, ioVars, thrVars,
                   rotVars,
                   recVars,
                   rctlVars,
                   widgetVars>>

\* The stop branch, second and third try: self.fft_process.stop() and
\* self.horus_modem.close().
StopBranchModem ==
    /\ ui_pc = "stop_modem"
    /\ modem_closed' = TRUE
    /\ ui_pc' = "stopped"
    /\ UNCHANGED <<cap_pc, modem_adds>>
    /\ UNCHANGED <<fftVars, guiVars, sessVars, logVars, capVars, ioVars,
                   thrVars, rotVars,
                   recVars,
                   rctlVars,
                   widgetVars>>

\* cleanup, first try: self.horus_modem.close().
CleanupModem ==
    /\ ui_pc = "session"
    /\ modem_closed' = TRUE
    /\ ui_pc' = "clean_stream"
    /\ UNCHANGED <<cap_pc, modem_adds>>
    /\ UNCHANGED <<fftVars, guiVars, sessVars, logVars, capVars, ioVars,
                   thrVars, rotVars,
                   recVars,
                   rctlVars,
                   widgetVars>>

\* cleanup, second try: self.audio_stream.stop(). Closing a device stream
\* waits for a callback in progress.
CleanupStream ==
    /\ ui_pc = "clean_stream"
    /\ \E raises \in {r \in BOOLEAN : r => cap_source = "AudioStream"} :
          /\ (cap_source = "AudioStream" /\ ~raises) => cap_pc # "handle"
          /\ StreamStop(raises)
    /\ ui_pc' = "cleaned"
    /\ UNCHANGED <<modem_closed, cap_pc, modem_adds, socket_open>>
    /\ UNCHANGED capRest
    /\ UNCHANGED <<fftVars, guiVars, sessVars, logVars, ioVars, thrVars,
                   rotVars,
                   recVars,
                   rctlVars,
                   widgetVars>>

\* udp_listen_thread: the test of the while loop, and self.s.close() once
\* the flag is cleared.
ListenLoop ==
    /\ cap_source = "UDPStream"
    /\ cap_alive
    /\ cap_pc = "loop"
    /\ IF listen_thread_running
       THEN /\ cap_pc' = "recvfrom"
            /\ UNCHANGED <<cap_alive, socket_open>>
       ELSE /\ cap_pc' = "ended"
            /\ cap_alive' = FALSE
            /\ socket_open' = FALSE
    /\ UNCHANGED <<ui_pc, modem_closed, modem_adds, listen_thread_running>>
    /\ UNCHANGED capRest
    /\ UNCHANGED <<fftVars, guiVars, sessVars, logVars, ioVars, thrVars,
                   rotVars,
                   recVars,
                   rctlVars,
                   widgetVars>>

\* udp_listen_thread: self.s.recvfrom(65535) returns a datagram, or times
\* out after a second; at most maxBlocks datagrams arrive.
ListenRecv(maxBlocks) ==
    /\ cap_pc = "recvfrom"
    /\ \E got \in {g \in BOOLEAN : g => Len(modem_adds) < maxBlocks} :
          cap_pc' = IF got THEN "handle" ELSE "loop"
    /\ UNCHANGED <<ui_pc, modem_closed, modem_adds>>
    /\ UNCHANGED <<fftVars, guiVars, sessVars, logVars, capVars, ioVars,
                   thrVars, rotVars,
                   recVars,
                   rctlVars,
                   widgetVars>>

\* pyaudio calls handle_samples in its callback thread while the device
\* stream is open.
DeviceCallback(maxBlocks) ==
    /\ cap_source = "AudioStream"
    /\ cap_alive
    /\ cap_pc = "loop"
    /\ Len(modem_adds) < maxBlocks
    /\ cap_pc' = "handle"
    /\ UNCHANGED <<ui_pc, modem_closed, modem_adds>>
    /\ UNCHANGED <<fftVars, guiVars, sessVars, logVars, capVars, ioVars,
                   thrVars, rotVars,
                   recVars,
                   rctlVars,
                   widgetVars>>

\* handle_samples: self.modem.add_samples(data), on the modem object the
\* source was constructed with.
HandleBlock ==
    /\ cap_pc = "handle"
    /\ modem_adds' = Append(modem_adds, modem_closed)
    /\ cap_pc' = "loop"
    /\ UNCHANGED <<ui_pc, modem_closed>>
    /\ UNCHANGED <<fftVars, guiVars, sessVars, logVars, capVars, ioVars,
                   thrVars, rotVars,
                   recVars,
                   rctlVars,
                   widgetVars>>

---------------------------------------------------------------------------
(* TelemetryLogger: what write_json and write_csv do to the record *)

\* The keys every decoded record has, and the ones only some have.
BaseKeys == {"time", "callsign", "latitude", "longitude", "altitude", "snr"}

OptionalKeys == {"packet_format", "ukhas_str", "custom_field_names"}

\* self.log_format: the two formats handled, and another one.
LogFormats == {"CSV", "JSON", "TXT"}

LogDirectories == {"", "logs"}

\* write_json: telemetry.pop('packet_format') if the key is there.
write_json(telemetry) == telemetry \ {"packet_format"}

\* write_csv: packet_format, ukhas_str and custom_field_names are popped
\* if they are there.
write_csv(telemetry) ==
    telemetry \ {"packet_format", "ukhas_str", "custom_field_names"}

\* handle_telemetry: the keys of the record object when it returns. The
\* keys are popped before any file is opened.
handle_telemetry(telemetry, directory, format) ==
    IF directory = "" THEN telemetry
    ELSE IF format = "JSON" THEN write_json(telemetry)
    ELSE IF format = "CSV" THEN write_csv(telemetry)
    ELSE telemetry

\* handle_new_packet has decoded a record; the logger is enabled.
NewRecord ==
    /\ rec_keys \in {BaseKeys \cup opt : opt \in SUBSET OptionalKeys}
    /\ rec_added = {}
    /\ rec_format \in LogFormats
    /\ rec_directory \in LogDirectories
    /\ rec_pc = "new"

\* add: self.input_queue.put_nowait(telemetry), the object itself.
RecordAdd ==
    /\ rec_pc = "new"
    /\ rec_added' = rec_keys
    /\ rec_pc' = "queued"
    /\ UNCHANGED <<rec_keys, rec_format, rec_directory>>
    /\ UNCHANGED <<fftVars, guiVars, sessVars, logVars, capVars, ioVars,
                   thrVars, rotVars, useVars,
                   rctlVars,
                   widgetVars>>

\* process_telemetry: self.handle_telemetry(self.input_queue.get())
RecordHandle ==
    /\ rec_pc = "queued"
    /\ rec_keys' = handle_telemetry(rec_keys, rec_directory, rec_format)
    /\ rec_pc' = "handled"
    /\ UNCHANGED <<rec_added, rec_format, rec_directory>>
    /\ UNCHANGED <<fftVars, guiVars, sessVars, logVars, capVars, ioVars,
                   thrVars, rotVars, useVars,
                   rctlVars,
                   widgetVars>>

---------------------------------------------------------------------------
(* ROTCTLD: connecting to a rotctld server (rotators.py, gui.py) *)

\* A server that refuses the TCP connection, one that accepts it and never
\* answers, and one that answers every command.
RotctldServers == {"refuses", "silent", "answers"}

\* send_command: the command is sent; with check_response the answer is
\* read, None when recv raises (the timeout); without it the text "RPRT 0"
\* is returned and nothing is read.
send_command(command, check_response, server) ==
    IF check_response
    THEN IF server = "answers" THEN Some("reply") ELSE None
    ELSE Some("RPRT 0")

\* get_model: self.send_command('_')
get_model(server) == send_command("_", FALSE, server)

\* startstop_rotator with no rotator and the type rotctld: ROTCTLD(...) and
\* connect(). At most maxConnects attempts are made.
RotctldConnect(maxConnects) ==
    /\ gui_rotator = "None"
    /\ rot_connects < maxConnects
    /\ rot_connects' = rot_connects + 1
    /\ \E server \in RotctldServers :
          /\ rot_server' = server
          /\ IF server = "refuses"
             THEN \* self.sock.connect raises; the except branch of
                  \* startstop_rotator sets self.rotator = None
                  /\ rot_sock' = "created"
                  /\ rot_sent' = <<>>
                  /\ rot_model' = Some("raised")
                  /\ gui_rotator' = "None"
             ELSE LET model == get_model(server)
                  IN  /\ rot_sent' = <<[command |-> "_", server |-> server]>>
                      /\ IF model = None
                         THEN \* self.close(); raise Exception("Timeout!")
                              /\ rot_sock' = "closed"
                              /\ rot_model' = Some("raised")
                              /\ gui_rotator' = "None"
                         ELSE /\ rot_sock' = "connected"
                              /\ rot_model' = model
                              /\ gui_rotator' = "ROTCTLD"
    /\ UNCHANGED <<fftVars, guiVars, sessVars, logVars, capVars, ioVars,
                   thrVars, rotVars, useVars, recVars,
                   widgetVars>>

\* The bearings and elevations of handle_new_packet, in degrees.
RotctldTargets == {[azimuth |-> 45, elevation |-> 30],
                   [azimuth |-> 370, elevation |-> 95]}

\* set_azel: the elevation is kept within 0..90 and an azimuth above 360
\* is reduced; the command is "P azimuth elevation".
set_azel(azimuth, elevation) ==
    [command |-> "P",
     azimuth |-> IF azimuth > 360 THEN azimuth % 360 ELSE azimuth,
     elevation |-> IF elevation > 90 THEN 90
                   ELSE IF elevation < 0 THEN 0 ELSE elevation]

\* handle_new_packet: self.rotator.set_azel(bearing, elevation,
\* check_response=False), for at most maxMoves move commands.
RotctldSetAzel(maxMoves) ==
    /\ gui_rotator = "ROTCTLD"
    /\ Len(rot_sent) <= maxMoves
    /\ \E t \in RotctldTargets :
          rot_sent' = Append(rot_sent, set_azel(t.azimuth, t.elevation)
                                           @@ [server |-> rot_server])
    /\ UNCHANGED <<rot_server, gui_rotator, rot_sock, rot_model, rot_connects>>
    /\ UNCHANGED <<fftVars, guiVars, sessVars, logVars, capVars, ioVars,
                   thrVars, rotVars, useVars, recVars,
                   widgetVars>>

\* startstop_rotator with a rotator: self.rotator.close() and
\* self.rotator = None.
RotctldStop ==
    /\ gui_rotator = "ROTCTLD"
    /\ rot_sock' = "closed"
    /\ gui_rotator' = "None"
    /\ UNCHANGED <<rot_server, rot_sent, rot_model, rot_connects>>
    /\ UNCHANGED <<fftVars, guiVars, sessVars, logVars, capVars, ioVars,
                   thrVars, rotVars, useVars, recVars,
                   widgetVars>>

---------------------------------------------------------------------------
(* SpecQueue: the sample source, the input queue and the processing         *)
(* thread of one FFTProcess.                                              *)

InitQueue == IdleFFT /\ IdleGUI /\ IdleSession /\ IdleCapture /\ IdleIO
    /\ IdleThreads /\ IdleRotator /\ IdleUse /\ IdleRecord /\ IdleRotctld /\ IdleWidgets

NextQueue == AddSamples \/ ThreadCheck \/ ThreadBody \/ Stop

SpecQueue == InitQueue /\ [][NextQueue]_vars

---------------------------------------------------------------------------
(* SpecStop: a few blocks, a processing thread that is scheduled fairly,   *)
(* and stop() called more than once.                                       *)

InitStop == IdleFFT /\ IdleGUI /\ IdleSession /\ IdleCapture /\ IdleIO
    /\ IdleThreads /\ IdleRotator /\ IdleUse /\ IdleRecord /\ IdleRotctld /\ IdleWidgets

NextStop ==
    \/ AddSamplesUpTo(MaxStopAdds)
    \/ ThreadCheck
    \/ ThreadBodyUpTo(MaxStopAdds)
    \/ Stop

SpecStop ==
    /\ InitStop
    /\ [][NextStop]_vars
    /\ WF_vars(ThreadCheck)
    /\ WF_vars(ThreadBodyUpTo(MaxStopAdds))

---------------------------------------------------------------------------
(* SpecFFT: process_block applied to a byte stream cut into chunks.        *)

Streams == UNION {[1..n -> ByteValues] : n \in 0..MaxStreamLen}

InitFFT ==
    /\ InitFFTProcess
    /\ nfft \in 1..MaxNfft
    /\ stride \in 1..MaxStride
    /\ update_decimation \in 1..MaxDecimation
    /\ callback \in BOOLEAN
    /\ stream \in Streams
    /\ IdleGUI
    /\ IdleSession
    /\ IdleCapture
    /\ IdleIO
    /\ IdleThreads /\ IdleRotator /\ IdleUse /\ IdleRecord /\ IdleRotctld /\ IdleWidgets

\* One call of process_block with the next n bytes of the stream.
FeedChunk ==
    /\ fed < Len(stream)
    /\ \E n \in 1..(Len(stream) - fed) :
          /\ SetFFTState(ProcessBlock(FFTState, SubSeq(stream, fed + 1, fed + n)))
          /\ fed' = fed + n
    /\ calls' = calls + 1
    /\ UNCHANGED <<nfft, stride, update_decimation, callback, input_queue,
                   processing_thread_running, fft_pc, overruns, added, taken,
                   stream, stop_log>>
    /\ UNCHANGED nonFFT

NextFFT == FeedChunk

SpecFFT == InitFFT /\ [][NextFFT]_vars

---------------------------------------------------------------------------
(* SpecPacket: status updates and decoded frames handled by the UI thread, *)
(* with every input of handle_new_packet.                                  *)

InitPacket == IdleFFT /\ InitGUI /\ IdleSession /\ IdleCapture /\ IdleIO
    /\ IdleThreads /\ IdleRotator /\ IdleUse /\ IdleRecord /\ IdleRotctld /\ IdleWidgets

NextPacket ==
    \/ HandleStatusUpdate(MaxStatus, MaxStatus)
    \/ StartStopRotator
    \/ SetLoggingState
    \/ PacketParse(AllInputs)
    \/ PacketPosition(AllInputs)
    \/ PacketHorusUDP(AllInputs)
    \/ PacketOziMux(AllInputs)
    \/ PacketLog
    \/ PacketReturn

SpecPacket == InitPacket /\ [][NextPacket]_vars

---------------------------------------------------------------------------
(* SpecSnr: a long SNR history, and frames handled with nothing else      *)
(* configured.                                                             *)

InitSnr == IdleFFT /\ InitGUI /\ IdleSession /\ IdleCapture /\ IdleIO
    /\ IdleThreads /\ IdleRotator /\ IdleUse /\ IdleRecord /\ IdleRotctld /\ IdleWidgets

NextSnr ==
    \/ HandleStatusUpdate(MaxStatusSnr, MaxPeaks)
    \/ PacketParse(QuietInputs)
    \/ PacketPosition(QuietInputs)
    \/ PacketHorusUDP(QuietInputs)
    \/ PacketOziMux(QuietInputs)
    \/ PacketLog
    \/ PacketReturn

SpecSnr == InitSnr /\ [][NextSnr]_vars

---------------------------------------------------------------------------
(* SpecOrder: the modem thread emits frames while the UI thread handles    *)
(* them.                                                                   *)

InitOrder == IdleFFT /\ InitGUI /\ IdleSession /\ IdleCapture /\ IdleIO
    /\ IdleThreads /\ IdleRotator /\ IdleUse /\ IdleRecord /\ IdleRotctld /\ IdleWidgets

NextOrder ==
    \/ HandleStatusUpdate(1, 1)
    \/ HandleNewPacketEmit(MaxFrames)
    \/ PacketParse(EmittedInputs)
    \/ PacketPosition(EmittedInputs)
    \/ PacketHorusUDP(EmittedInputs)
    \/ PacketOziMux(EmittedInputs)
    \/ PacketLog
    \/ PacketReturn

SpecOrder == InitOrder /\ [][NextOrder]_vars

---------------------------------------------------------------------------
(* SpecLogger: records are added while the logger thread writes them, and  *)
(* the user switches logging on and off.                                   *)

InitLogger == IdleFFT /\ IdleGUI /\ IdleSession /\ IdleCapture /\ IdleIO
    /\ IdleThreads /\ IdleRotator /\ IdleUse /\ IdleRecord /\ IdleRotctld /\ IdleWidgets

NextLogger ==
    \/ SetLoggingState
    \/ LoggerAdd(MaxLogAdds)
    \/ LoggerHandle
    \/ LoggerClose
    \/ LoggerExit

SpecLogger == InitLogger /\ [][NextLogger]_vars

---------------------------------------------------------------------------
(* SpecCapture: a capture source delivering blocks to its hooks.           *)

InitCapture == IdleFFT /\ IdleGUI /\ IdleSession /\ StartCapture /\ IdleIO
    /\ IdleThreads /\ IdleRotator /\ IdleUse /\ IdleRecord /\ IdleRotctld /\ IdleWidgets

NextCapture ==
    \/ AudioCallback(MaxBlocks)
    \/ UdpListen(MaxBlocks, MaxDeliveries)

SpecCapture == InitCapture /\ [][NextCapture]_vars

---------------------------------------------------------------------------
(* SpecUkhas: a sentence is built from telemetry and its checksum, one     *)
(* character of the telemetry may be replaced, and the sentence is parsed. *)

InitUkhas ==
    /\ IdleFFT /\ IdleGUI /\ IdleSession /\ IdleCapture
    /\ IdleThreads /\ IdleRotator /\ IdleUse /\ IdleRecord /\ IdleRotctld /\ IdleWidgets
    /\ ukhas_input \in UkhasInputs
    /\ sentence = <<>>
    /\ replaced = 0
    /\ decoded = None
    /\ ukhas_pc = "input"
    /\ send_calls = 0
    /\ send_log = <<>>
    /\ send_result = NoSend

NextUkhas == UkhasBuild \/ UkhasReplace \/ UkhasDecode

SpecUkhas == InitUkhas /\ [][NextUkhas]_vars

---------------------------------------------------------------------------
(* SpecSend: send_payload_summary called with any telemetry and any        *)
(* outcome of the socket calls.                                            *)

InitSend == IdleFFT /\ IdleGUI /\ IdleSession /\ IdleCapture /\ IdleIO
    /\ IdleThreads /\ IdleRotator /\ IdleUse /\ IdleRecord /\ IdleRotctld /\ IdleWidgets

NextSend == SendPayloadSummary(MaxSends)

SpecSend == InitSend /\ [][NextSend]_vars

---------------------------------------------------------------------------
(* SpecUkhasParse: sentences with a correct checksum are parsed.           *)

InitUkhasParse ==
    /\ IdleFFT /\ IdleGUI /\ IdleSession /\ IdleCapture
    /\ IdleThreads /\ IdleRotator /\ IdleUse /\ IdleRecord /\ IdleRotctld /\ IdleWidgets
    /\ ukhas_input \in UkhasParseInputs
    /\ sentence = <<>>
    /\ replaced = 0
    /\ decoded = None
    /\ ukhas_pc = "input"
    /\ send_calls = 0
    /\ send_log = <<>>
    /\ send_result = NoSend

NextUkhasParse == UkhasBuild \/ UkhasDecode

SpecUkhasParse == InitUkhasParse /\ [][NextUkhasParse]_vars

---------------------------------------------------------------------------
(* SpecUdpStop: a UDPStream whose listen thread is scheduled fairly, and   *)
(* stop() called more than once.                                           *)

InitUdpStop ==
    /\ IdleFFT /\ IdleGUI /\ IdleSession /\ StartCapture /\ IdleIO
    /\ IdleThreads /\ IdleRotator /\ IdleUse /\ IdleRecord /\ IdleRotctld /\ IdleWidgets
    /\ cap_source = "UDPStream"

NextUdpStop ==
    \/ UdpListen(MaxBlocks, MaxDeliveries)
    \/ UdpStop(MaxStops)
    \/ UdpExit

SpecUdpStop ==
    /\ InitUdpStop
    /\ [][NextUdpStop]_vars
    /\ WF_vars(UdpListen(MaxBlocks, MaxDeliveries))
    /\ WF_vars(UdpExit)

---------------------------------------------------------------------------
(* SpecThreads: the worker threads emit, the UI thread's event loop runs
   the connected handlers *)

MaxUiQueue == 3

InitThreads == IdleFFT /\ IdleGUI /\ IdleSession /\ IdleCapture /\ IdleIO
    /\ IdleThreads /\ IdleRotator /\ IdleUse /\ IdleRecord /\ IdleRotctld /\ IdleWidgets

NextThreads ==
    \/ FftEmit(MaxUiQueue)
    \/ StatusEmit(MaxUiQueue)
    \/ PacketEmit(MaxUiQueue)
    \/ Dispatch

SpecThreads == InitThreads /\ [][NextThreads]_vars

---------------------------------------------------------------------------
(* SpecSnrRoll: status updates from an empty history until the window has
   rolled *)

MaxOverflow == 3     \* status updates beyond the 200 the window holds

InitSnrRoll == IdleFFT /\ InitGUI /\ IdleSession /\ IdleCapture /\ IdleIO
    /\ IdleThreads /\ IdleRotator /\ IdleUse /\ IdleRecord /\ IdleRotctld /\ IdleWidgets

NextSnrRoll == HandleStatusUpdate(SnrHistoryMax + MaxOverflow, 1)

SpecSnrRoll == InitSnrRoll /\ [][NextSnrRoll]_vars

---------------------------------------------------------------------------
(* SpecRotator: a PSTRotator receives position reports until close() *)

MaxReports == 3      \* datagrams the listener receives

InitRotator == IdleFFT /\ IdleGUI /\ IdleSession /\ IdleCapture /\ IdleIO
    /\ IdleThreads /\ StartRotator /\ IdleUse /\ IdleRecord /\ IdleRotctld /\ IdleWidgets

NextRotator ==
    \/ AzelRxLoop(MaxReports)
    \/ RotatorClose
    \/ AzelRxExit

SpecRotator ==
    /\ InitRotator
    /\ [][NextRotator]_vars
    /\ WF_vars(AzelRxExit)

---------------------------------------------------------------------------
(* SpecModemUse: a running capture source while the session is stopped or
   the application quits *)

InitModemUse ==
    /\ IdleFFT /\ IdleGUI /\ IdleSession /\ StartCapture /\ IdleIO
    /\ IdleThreads /\ IdleRotator /\ IdleUse /\ IdleRecord /\ IdleRotctld /\ IdleWidgets

NextModemUse ==
    \/ StopBranchStream
    \/ StopBranchModem
    \/ CleanupModem
    \/ CleanupStream
    \/ ListenLoop
    \/ ListenRecv(MaxBlocks)
    \/ DeviceCallback(MaxBlocks)
    \/ HandleBlock

SpecModemUse == InitModemUse /\ [][NextModemUse]_vars

---------------------------------------------------------------------------
(* SpecSessionSnr: status updates arrive while a session runs; sessions
   are started and stopped *)

\* A status update from the capture thread of the running session.
SessionStatusUpdate(maxUpdates, maxPeaks) ==
    /\ running
    /\ HandleStatusUpdate(maxUpdates, maxPeaks)

InitSessionSnr ==
    /\ IdleFFT /\ InitGUI /\ IdleSession /\ IdleCapture /\ IdleIO
    /\ IdleThreads /\ IdleRotator /\ IdleUse /\ IdleRecord /\ IdleRotctld /\ IdleWidgets

NextSessionSnr ==
    \/ StartDecoding
    \/ StopDecoding
    \/ DecodedAgeThread
    \/ SessionStatusUpdate(MaxStatus, MaxPeaks)

SpecSessionSnr == InitSessionSnr /\ [][NextSessionSnr]_vars

---------------------------------------------------------------------------
(* SpecRecord: a record is added to the logger and handled by its thread *)

InitRecord ==
    /\ IdleFFT /\ IdleGUI /\ IdleSession /\ IdleCapture /\ IdleIO
    /\ IdleThreads /\ IdleRotator /\ IdleUse /\ NewRecord /\ IdleRotctld /\ IdleWidgets

NextRecord == RecordAdd \/ RecordHandle

SpecRecord == InitRecord /\ [][NextRecord]_vars

---------------------------------------------------------------------------
(* SpecRotctld: the user connects to a rotctld server, packets move the
   rotator, the user disconnects *)

MaxConnects == 3     \* connection attempts
MaxMoves == 3        \* move commands on one connection

InitRotctld ==
    /\ IdleFFT /\ IdleGUI /\ IdleSession /\ IdleCapture /\ IdleIO
    /\ IdleThreads /\ IdleRotator /\ IdleUse /\ IdleRecord /\ IdleRotctld /\ IdleWidgets

NextRotctld ==
    \/ RotctldConnect(MaxConnects)
    \/ RotctldSetAzel(MaxMoves)
    \/ RotctldStop

SpecRotctld == InitRotctld /\ [][NextRotctld]_vars

---------------------------------------------------------------------------
(* SpecSession: the user starts and stops decoding, connects a rotator,   *)
(* and quits.                                                              *)

InitSession == IdleFFT /\ IdleGUI /\ IdleSession /\ IdleCapture /\ IdleIO
    /\ IdleThreads /\ IdleRotator /\ IdleUse /\ IdleRecord /\ IdleRotctld /\ IdleWidgets

NextSession ==
    \/ StartDecoding
    \/ StopDecoding
    \/ Cleanup
    \/ DecodedAgeThread
    \/ StartStopRotator

SpecSession == InitSession /\ [][NextSession]_vars

---------------------------------------------------------------------------
(* Claims about FFTProcess *)

\* C1: the input queue never holds more than its capacity of 512 blocks,
\* and an add_samples call made while the queue is full leaves the queue
\* as it was (the new block is dropped) and logs one overrun.
C1_QueueCapped ==
    /\ [](Len(input_queue) <= InputQueueSize)
    /\ [][(added' = added + 1 /\ Len(input_queue) = InputQueueSize)
            => (input_queue' = input_queue /\ overruns' = overruns + 1)]_vars

\* A full queue has dropped a block while the processing thread was taking
\* blocks from it.
C1_Witness ==
    /\ overruns > 0
    /\ taken > 0
    /\ Len(input_queue) = InputQueueSize

\* The state of a newly built FFTProcess.
FreshFFTState ==
    [buf |-> <<>>, counter |-> 0, emitted |-> <<>>, performed |-> <<>>,
     consumed |-> 0]

\* The byte range of each FFT window performed, in order.
WindowsOf(p) ==
    [i \in 1..Len(p) |-> [offset |-> p[i].offset, window |-> p[i].window]]

\* The whole stream given to process_block as one block.
OneBlock == ProcessBlock(FreshFFTState, stream)

\* Once the whole stream is fed, the chunked run has performed the windows
\* of the one-block run and holds the same residual buffer.
ChunkInvariant ==
    fed = Len(stream) =>
        /\ WindowsOf(performed) = WindowsOf(OneBlock.performed)
        /\ sample_buffer = OneBlock.buf

\* C2 as stated: for any nfft and stride, any split of the stream into
\* chunks gives the same FFT windows and the same residual sample_buffer.
C2_AnyStride == ChunkInvariant

\* C2 as amended: for any nfft and any stride of at most nfft, any split of
\* the stream into chunks gives the same FFT windows (count, byte ranges,
\* order) and the same residual sample_buffer.
C2_StrideWithinWindow == (stride <= nfft) => ChunkInvariant

\* A stream fed one byte at a time, with overlapping windows.
C2_Witness ==
    /\ fed = Len(stream)
    /\ calls = Len(stream)
    /\ stride < nfft
    /\ Len(performed) >= 2

\* Peak absolute sample value of a window.
PeakAbs(samples) == SeqMax([i \in 1..Len(samples) |-> Abs(samples[i])])

\* C3: perform_fft gives the silence sentinel (NaN spectrum, dBFS -99)
\* exactly for the windows whose samples are all zero, and for every other
\* window a computed spectrum with a dBFS taken from the peak absolute value.
C3_SilenceIffAllZero ==
    \A i \in 1..Len(performed) :
        LET w == ToSamples(performed[i].window)
            r == performed[i].result
        IN  /\ (r.fft = "nan" /\ r.dbfs = SilenceDbfs) <=> (PeakAbs(w) = 0)
            /\ (PeakAbs(w) # 0) =>
                  (r.fft = "spectrum" /\ r.dbfs_of = PeakAbs(w))


---------------------------------------------------------------------------
(* Claims about handle_new_packet *)

\* The handler has called the sink of this name for the current frame.
Called(name) == \E i \in 1..Len(pkt.calls) : pkt.calls[i] = name

C5_FailedParseNoSink ==
    (pkt.frame.kind \in {"str", "bytes"} /\ pkt.frame.parse # "ok") =>
        /\ pkt.calls = <<>>
        /\ ~pkt.pos_display
        /\ ~pkt.logged
        /\ pkt.horus = "unread" /\ pkt.ozimux = "unread"
        /\ pkt_pc \in {"done", "idle"}
        /\ (pkt.snr # None) => (pkt.raised = "")

\* C5 happens: with a rotator connected and the logger enabled, a frame
\* with a CRC failure that is not hidden was handled and shown as failed.
C5_Witness ==
    /\ pkt_pc = "done"
    /\ pkt.frame.parse = "crc"
    /\ pkt.hide_crc = "off"
    /\ pkt.decode_failed
    /\ pkt.calls = <<>>
    /\ rotator /\ logger_enabled

\* C6: for a parsed record, every sink step is reached whatever the other
\* sink steps did: when the handler is done, the Horus UDP and the OziMux
\* steps were reached and the logger's add was called.
C6_SinkIsolation ==
    (pkt_pc = "done" /\ pkt.decoded) =>
        /\ pkt.horus # "unread"
        /\ pkt.ozimux # "unread"
        /\ Called("telemetry_logger.add")

\* C7: with a rotator connected, a record position that is not 0.0/0.0 and
\* the station position set, set_azel is not called below 250 m when the
\* inhibit is on, is called at 250 m or more when it is on, and is called
\* at any distance when it is off.
C7_RangeInhibit ==
    (pkt.station = "nonzero" /\ rotator /\ ~pkt.frame.lat0) =>
        LET d == pkt.distance[1]
        IN  /\ (pkt.inhibit = "on" /\ d < 250) => ~Called("rotator.set_azel")
            /\ (pkt.inhibit = "on" /\ d >= 250) => Called("rotator.set_azel")
            /\ (pkt.inhibit = "off") => Called("rotator.set_azel")

\* C7 happens: the inhibit is on, the distance is exactly 250 m and the
\* rotator was commanded.
C7_Witness ==
    /\ pkt.station = "nonzero"
    /\ rotator
    /\ ~pkt.frame.lat0
    /\ pkt.inhibit = "on"
    /\ pkt.distance = Some(250)
    /\ Called("rotator.set_azel")

\* C8: a record with latitude 0.0 and longitude 0.0 never causes a set_azel
\* call.
C8_ZeroPositionNoRotator ==
    pkt.frame.lat0 => ~Called("rotator.set_azel")

\* C8 happens: a record at 0.0/0.0 went through the position step with a
\* rotator connected, a station position set and the inhibit off.
C8_Witness ==
    /\ pkt.frame.lat0
    /\ pkt_pc = "horus"
    /\ rotator
    /\ pkt.station = "nonzero"
    /\ pkt.pos_display
    /\ pkt.inhibit = "off"
    /\ ~Called("rotator.set_azel")


---------------------------------------------------------------------------
(* Claims about the decode session *)

\* C9: after a start in which the modem or the sample source raised, no
\* worker of the session is running (FFT processing loop, capture worker,
\* packet-age worker) and running is false.
C9_FailedStartLeavesNothing ==
    (/\ session.op = "start"
     /\ session.result = "raised"
     /\ session.raised_at \in {"HorusLib", "AudioStream"}) =>
        /\ ~running
        /\ fft_threads = 0
        /\ captures = 0
        /\ age_threads = 0

\* C10: after the stop branch or cleanup, the stop or close of every
\* component was reached whichever of them raised, running is false and the
\* modem reference is None.
C10_StopIsolation ==
    (session.op \in {"stop", "cleanup"}) =>
        /\ {"audio_stream", "fft_process"} \subseteq session.reached
        /\ session.op = "stop" => "horus_modem" \in session.reached
        /\ session.op = "cleanup" =>
              {"sondehub_uploader", "telemetry_logger"}
                  \subseteq session.reached
        /\ (session.op = "cleanup" /\ rotator) => "rotator" \in session.reached
        /\ ~running
        /\ horus_modem = "None"


---------------------------------------------------------------------------
(* Claims about the processing thread and stop *)

\* C11: stop() is idempotent (a stop() after the first changes nothing of
\* the FFTProcess), and under fair scheduling the processing loop exits
\* after the first stop(), having taken at most one further block after the
\* flag was cleared.
C11_StopIdempotentLoopExits ==
    /\ [][(Len(stop_log) > 0 /\ Len(stop_log') > Len(stop_log)) =>
            UNCHANGED <<processing_thread_running, input_queue,
                        sample_buffer, update_counter, fft_pc, emitted,
                        performed, consumed>>]_vars
    /\ [](Len(stop_log) > 0 =>
            /\ ~processing_thread_running
            /\ taken <= stop_log[1] + 1)
    /\ (Len(stop_log) > 0) ~> (fft_pc = "stopped")

\* C11 happens: stop() was called twice, the loop took one block after the
\* first stop() and has exited with a block still queued.
C11_Witness ==
    /\ Len(stop_log) = 2
    /\ fft_pc = "stopped"
    /\ taken = stop_log[1] + 1
    /\ Len(input_queue) > 0


---------------------------------------------------------------------------
(* Claims about the order of frames *)

\* C12: frames are handled in the order they were decoded and one at a
\* time: every sink call for a frame comes before every sink call for a
\* frame decoded after it, and no frame decoded before the one being
\* handled is still waiting.
C12_FramesInOrder ==
    /\ \A i \in 1..Len(sink_log) : \A j \in i..Len(sink_log) :
          sink_log[i].id <= sink_log[j].id
    /\ \A k \in 1..Len(pending) :
          /\ current # 0 => pending[k].id > current
          /\ \A i \in 1..Len(sink_log) : sink_log[i].id < pending[k].id

\* C12 happens: the second frame is being handled and has reached a sink,
\* the first frame reached its sinks before, and a third frame is waiting.
C12_Witness ==
    /\ current = 2
    /\ pkt_pc = "ozimux"
    /\ \E i \in 1..Len(sink_log) : sink_log[i].id = 1
    /\ \E i \in 1..Len(sink_log) : sink_log[i].id = 2
    /\ Len(pending) = 1


---------------------------------------------------------------------------
(* Claims about the telemetry logger *)

\* C13: every queue between a producer and a consumer has a fixed capacity
\* that its length never exceeds. For the logger's queue the capacity would
\* have to be below the number of records the model adds.
C13_QueuesBounded ==
    /\ Len(input_queue) <= InputQueueSize
    /\ Len(log_queue) < MaxLogAdds

\* C17: once opening a new log file has failed, and until logging is
\* configured again, the logger is disabled and no record is written.
C17_NoWriteAfterOpenFailure ==
    /\ [](log_failed => ~logger_enabled)
    /\ [][(log_failed /\ log_failed') => log_written' = log_written]_vars


\* C14: no error raised while a block is handled leaves handle_samples, in
\* either capture source, and the listen loop of the network source keeps
\* running once it has received something.
C14_BlockErrorsContained ==
    /\ cap_escaped = <<>>
    /\ (cap_source = "UDPStream" /\ udp_m # -1) => cap_alive


\* The record decode_ukhas_sentence is to return for an input.
UkhasExpected(in) ==
    [callsign  |-> in.callsign,
     time      |-> in.time,
     latitude  |-> in.latitude.value,
     longitude |-> in.longitude.value,
     altitude  |-> in.altitude.value]

\* A well-formed input: a valid time, a position that is not 0.0, 0.0, and
\* an altitude in range.
UkhasWellFormed(in) ==
    /\ TimeParses(in.time)
    /\ ~(in.latitude.value = 0 /\ in.longitude.value = 0)
    /\ in.altitude.value \in 0..AltitudeMax

\* C15: a well-formed sentence with its checksum parses to the original
\* callsign, time, latitude, longitude and altitude, and a sentence with one
\* character of its telemetry replaced does not parse.
C15_CrcRoundTrip ==
    ukhas_pc = "decoded" =>
        IF replaced = 0
        THEN UkhasWellFormed(ukhas_input)
                 => decoded = Some(UkhasExpected(ukhas_input))
        ELSE decoded = None


\* C16: send_payload_summary returns normally whatever the socket calls do;
\* when the send to the broadcast address raises a socket error the same
\* packet is sent to 127.0.0.1 on the same port; and a record with latitude
\* and longitude both 0.0 is not sent.
C16_BroadcastFallback ==
    send_calls > 0 =>
        /\ send_result.ended = "returned"
        /\ ZeroPosition(send_result.telemetry) => send_log = <<>>
        /\ (send_log # <<>> /\ send_result.outcome.broadcast = "socket.error")
              => /\ Len(send_log) = 2
                 /\ send_log[1].address = "<broadcast>"
                 /\ send_log[2] = [send_log[1] EXCEPT !.address = "127.0.0.1"]
                 /\ send_log[2].port = send_result.port
        /\ (send_log # <<>> /\ send_result.outcome.broadcast # "socket.error")
              => Len(send_log) = 1

\* C16 happens: the broadcast send raised a socket error, the packet went
\* to 127.0.0.1 as well, that send failed too, and the call returned.
C16_Witness ==
    /\ send_result.ended = "returned"
    /\ Len(send_log) = 2
    /\ send_log[2].address = "127.0.0.1"
    /\ send_result.outcome.loopback = "socket.error"
    /\ send_result.error = "socket.error"


\* C18: handling a frame with an empty payload calls no sink, changes no
\* display field, no SNR history and no last-packet time, and is over at
\* once.
C18_EmptyFrameRejected ==
    [][(pkt_pc = "idle" /\ pkt_pc' # "idle" /\ pkt'.frame.kind = "empty")
          => /\ pkt_pc' = "done"
             /\ pkt' = [FreshPkt EXCEPT !.frame = pkt'.frame]
             /\ sink_log' = sink_log
             /\ UNCHANGED <<histVars, dispVars, cfgVars, logVars>>]_vars

\* C18 happens: an empty frame was handled after a packet had been decoded
\* and displayed and with an SNR history, a rotator and the logger on.
C18_Witness ==
    /\ pkt_pc = "done"
    /\ pkt.frame.kind = "empty"
    /\ pkt.calls = <<>>
    /\ snrPlotSNR # <<>>
    /\ last_packet_time # None
    /\ decodedDisplay = "packet"
    /\ rotator /\ logger_enabled


\* C19: after process_block returns the buffer holds less than one full
\* window, whatever the sizes of the chunks.
C19_NoFullWindowLeft ==
    calls > 0 => Len(sample_buffer) < nfft * sample_width

\* The results of the FFTs whose index, counted from 0, is a multiple of
\* the decimation.
RECURSIVE EveryNth(_, _, _)
EveryNth(p, n, i) ==
    IF p = <<>> THEN <<>>
    ELSE (IF i % n = 0 THEN <<p[1].result>> ELSE <<>>)
             \o EveryNth(Tail(p), n, i + 1)

\* The emission half of C20: with a callback, the updates emitted are those
\* of the FFTs whose index is a multiple of update_decimation.
DecimatedEmission ==
    emitted = IF callback THEN EveryNth(performed, update_decimation, 0)
              ELSE <<>>

\* C20: update_counter counts every FFT performed, with or without a
\* callback, and with a callback the FFTs emitted are exactly those whose
\* index is a multiple of update_decimation.
C20_CounterAndDecimation ==
    /\ update_counter = Len(performed)
    /\ DecimatedEmission

\* C21: a sentence with a correct checksum is rejected (None) exactly when
\* its time does not parse, or its latitude and longitude are both 0.0, or
\* its altitude is outside 0..65535.
C21_RejectsExactly ==
    ukhas_pc = "decoded" =>
        (decoded = None <=>
            \/ ~TimeParses(ukhas_input.time)
            \/ (ukhas_input.latitude.value = 0
                   /\ ukhas_input.longitude.value = 0)
            \/ ukhas_input.altitude.value \notin 0..AltitudeMax)

\* C22: when the parse of a frame fails with a CRC failure and the hide
\* option is on, nothing is reported (no DECODE FAILED, no error log, the
\* decoded display is left as it was) and no record is forwarded; for every
\* other failed parse the failure is logged, the decoded display is set to
\* DECODE FAILED, and no record is forwarded.
C22_CrcHidePolicy ==
    /\ [](( pkt.frame.kind \in {"str", "bytes"} /\ pkt.frame.parse # "ok"
            /\ pkt.snr # None ) =>
            /\ ~pkt.decoded
            /\ pkt.calls = <<>>
            /\ IF pkt.frame.parse = "crc" /\ pkt.hide_crc = "on"
               THEN ~pkt.decode_failed /\ ~pkt.error_logged
               ELSE /\ pkt.decode_failed /\ pkt.error_logged
                    /\ decodedDisplay = "DECODE FAILED")
    /\ [][(pkt_pc = "idle" /\ pkt_pc' # "idle" /\ pkt'.frame.parse = "crc"
              /\ pkt'.hide_crc = "on") => UNCHANGED dispVars]_vars

\* C22 happens: a CRC failure was hidden while the display still shows the
\* packet decoded before it.
C22_Witness ==
    /\ pkt_pc = "done"
    /\ pkt.frame.parse = "crc"
    /\ pkt.hide_crc = "on"
    /\ ~pkt.decode_failed
    /\ decodedDisplay = "packet"

\* C23: the snr of the record each sink is given (SondeHub uploader, Horus
\* UDP, OziMux, logger) is the lookback-maximum SNR taken when the frame was
\* decoded, whichever forwarders are enabled.
C23_SinkSnrIsLookbackMax ==
    \A i \in 1..Len(pkt.sink_snr) : pkt.sink_snr[i].snr = pkt.snr[1]

\* C24: the record of a frame that parses carries f_centre whenever the
\* dial frequency is configured and is a number: the dial frequency plus the
\* estimator average when there is an estimate, the dial frequency alone
\* when no status update has given one yet; with no dial frequency
\* configured the record has no f_centre.
C24_CentreFrequency ==
    (pkt.frame.parse = "ok") =>
        pkt.f_centre =
            IF pkt.dial_entry = "" \/ DialHz(pkt.dial_entry) = None
            THEN None
            ELSE Some(DialHz(pkt.dial_entry)[1]
                      + (IF fest_float = None THEN 0 ELSE fest_float[1]))

\* The hook calls C25 asks of one handle_samples call.
FanOut(h) ==
    <<[hook |-> "fft_input", block |-> h.block],
      [hook |-> "modem.add_samples", block |-> h.block]>>
        \o (IF ~h.met.modem_raises /\ h.met.stats /\ stats_callback
            THEN <<[hook |-> "stats_callback", block |-> h.block]>>
            ELSE <<>>)

RECURSIVE FanOutAll(_)
FanOutAll(hs) == IF hs = <<>> THEN <<>> ELSE FanOut(hs[1]) \o FanOutAll(Tail(hs))

\* C25: every block received is given to handle_samples, and each call of
\* handle_samples gives its block once to the spectrum input and then once
\* to the modem, and the statistics the modem returned for it to the stats
\* callback exactly when there are statistics and a callback is registered.
C25_FanOut ==
    /\ hook_calls = FanOutAll(handled)
    /\ \A b \in 1..blocks : \E i \in 1..Len(handled) : handled[i].block = b

\* C25 happens: with a stats callback registered, one block gave statistics
\* and another gave none.
C25_Witness ==
    /\ stats_callback
    /\ Len(handled) >= 2
    /\ stats_log # <<>>
    /\ Len(stats_log) < Len(modem_log)
    /\ cap_escaped = <<>>

\* C26: with the station at latitude 0.0 and longitude 0.0 the handler
\* computes no position info, shows no bearing, elevation or range and
\* gives the rotator no command, and still goes on to the UDP outputs and
\* the logger.
C26_StationNotConfigured ==
    (pkt.station = "zero") =>
        /\ pkt.distance = None
        /\ ~pkt.pos_display
        /\ ~Called("rotator.set_azel")
        /\ pkt_pc \in {"horus", "ozimux", "log", "done"}
        /\ (pkt_pc = "done") => pkt.horus # "unread"
        /\ (pkt_pc = "done" /\ pkt.raised = "") =>
               (pkt.ozimux # "unread" /\ Called("telemetry_logger.add"))

\* C26 happens: a record with a position, a rotator connected and the
\* station at 0.0, 0.0: the record went out by Horus UDP and to the logger.
C26_Witness ==
    /\ pkt_pc = "done"
    /\ pkt.station = "zero"
    /\ ~pkt.frame.lat0
    /\ rotator
    /\ pkt.horus = "sent"
    /\ Called("telemetry_logger.add")
    /\ pkt.logged

\* C27: once the listen thread of a UDPStream has ended, by whatever path,
\* its socket is closed; and a thread that stop() finds alive ends.
C27_SocketClosedOnEveryPath ==
    /\ [](~cap_alive => ~socket_open)
    /\ ((cap_stops > 0 /\ cap_alive) ~> ~cap_alive)


C29_BoundedOrderedWindow ==
    /\ [](/\ Len(snrPlotTime) = Len(snrPlotSNR)
          /\ Len(snrPlotTime) <= SnrHistoryMax
          /\ \A i \in 1..(Len(snrPlotTime) - 1) :
                 snrPlotTime[i] <= snrPlotTime[i + 1])
    /\ [][(Len(snrPlotTime) = SnrHistoryMax /\ clock' # clock)
             => /\ SubSeq(snrPlotTime', 1, SnrHistoryMax - 1)
                    = Tail(snrPlotTime)
                /\ SubSeq(snrPlotSNR', 1, SnrHistoryMax - 1)
                    = Tail(snrPlotSNR)
                /\ Len(snrPlotTime') = SnrHistoryMax
                /\ snrPlotTime'[SnrHistoryMax] = clock']_vars

\* More than 200 updates have arrived: the window is full, the first sample
\* is gone and a sample above the floor is still in it.
C29_Witness ==
    /\ clock > SnrHistoryMax
    /\ Len(snrPlotSNR) = SnrHistoryMax
    /\ snrPlotTime[1] = clock - SnrHistoryMax + 1
    /\ PeakCount(snrPlotSNR) = 1

\* C30: no report ends the listener: the t_rx thread ends only after
\* close(), with its socket closed and without an exception.
C30_MalformedReportDiscarded ==
    ~rx_alive => /\ ~azel_thread_running
                 /\ rx_socket = "closed"
                 /\ rx_escaped = None

\* C31: no block is passed to the modem's add_samples after the modem's
\* close() has been called.
C31_NoUseAfterClose ==
    \A i \in 1..Len(modem_adds) : ~modem_adds[i]

\* C32: the UDP source hands each datagram it received to handle_samples
\* exactly once, and a turn of the loop in which recvfrom times out or
\* fails neither delivers anything nor ends the listen thread.
C32_DeliveredExactlyOnce ==
    /\ [](cap_source = "UDPStream" =>
             /\ Len(fft_input_log) = blocks
             /\ \A i \in 1..Len(fft_input_log) : fft_input_log[i] = i)
    /\ [][(cap_source = "UDPStream" /\ blocks' = blocks)
             => /\ fft_input_log' = fft_input_log
                /\ cap_alive' = cap_alive]_vars

\* C33: handle_new_packet leaves no exception for a frame with a payload
\* that arrives while the SNR history is empty, and such a frame is parsed.
C33_EmptyHistoryHandled ==
    (pkt_pc # "idle" /\ HasPayload(pkt.frame) /\ snrPlotSNR = <<>>)
        => /\ pkt.raised = ""
           /\ pkt.snr # None

\* C34: a status update appends one sample to the SNR history and sets the
\* SNR label, whatever the estimator positions are: no update is left by an
\* exception with the history as it was.
C34_EveryUpdateRecorded ==
    /\ [](~status_raised)
    /\ [][(pkt_pc = "idle" /\ pkt_pc' = "idle" /\ histVars' # histVars)
             => /\ clock' = clock + 1
                /\ snrPlotSNR' # <<>>
                /\ snrPlotTime'[Len(snrPlotTime')] = clock'
                /\ snrLabel' =
                       Some(FormatTenths(snrPlotSNR'[Len(snrPlotSNR')]))]_vars

\* C35: when a decode session starts, the SNR history is empty.
C35_HistoryPerSession ==
    [][(~running /\ running')
          => /\ snrPlotSNR' = <<>>
             /\ snrPlotTime' = <<>>]_vars

\* C36: the record a sink shares with the logger has, after the logger
\* thread has handled it, every key it had when add() was called.
C36_RecordReadOnly ==
    rec_pc = "handled" => rec_keys = rec_added

\* C37: the rotator is set only when the rotctld server answered the model
\* query, and no move command is sent to a server that does not answer.
C37_ConnectTestsTheServer ==
    /\ gui_rotator = "ROTCTLD" => rot_server = "answers"
    /\ \A i \in 1..Len(rot_sent) :
           rot_sent[i].command = "P" => rot_sent[i].server = "answers"

\* C38: a frame whose decoded display was set to DECODE FAILED has no
\* record delivered to the rotator, the Horus UDP or OziMux forwarders, or
\* the logger.
C38_FailedFrameNotForwarded ==
    pkt.decode_failed =>
        /\ \A i \in 1..Len(pkt.calls) :
               pkt.calls[i] \notin {"rotator.set_azel", "send_payload_summary",
                                    "send_ozimux_message",
                                    "telemetry_logger.add"}
        /\ ~pkt.logged

\* C39: the logger thread does not end while a record accepted by add() is
\* still in the queue: close() loses no record.
C39_AcceptedRecordsHandled ==
    [][(log_running # "exited" /\ log_running' = "exited")
          => log_queue = <<>>]_vars

\* C40: a start_decoding call made with the callsign N0CALL leaves running
\* false and leaves the FFT processor, the modem, the sample source, the
\* worker threads, the Start button and the selectors as they were; and
\* running is true exactly when the last session operation is a start that
\* returned normally (no stop branch and no cleanup since).
C40_Refused_N0CALL ==
    /\ [][(starts' = starts + 1 /\ userCallEntry' = "N0CALL") =>
            /\ ~running'
            /\ UNCHANGED <<horus_modem, audio_stream, fft_process,
                           fft_threads, captures, age_threads,
                           startDecodeButton, selectorsEnabled>>]_vars
    /\ [](running <=> (session.op = "start" /\ session.result = "started"))

\* A start refused for N0CALL after an earlier session was started and
\* stopped: the stopped FFT processor is still the current one.
C40_Witness ==
    /\ session.op = "start" /\ session.result = "n0call"
    /\ userCallEntry = "N0CALL"
    /\ fft_process = "stopped"
    /\ startDecodeButton = "Start" /\ selectorsEnabled
    /\ ~running

====
